---------------------------- MODULE Spec2Model ----------------------------
(***************************************************************************)
(* A model of the nemu x86 emulator: the Emulator struct of               *)
(* src/emulator.rs (registers, eflags, eip, memory), its instruction      *)
(* handlers, the ModRM decoder of src/emulator/modrm.rs and the run loop  *)
(* of src/main.rs.                                                        *)
(*                                                                         *)
(* A u32 is a pair <<lo, hi>> of 16-bit limbs (value = hi * 2^16 + lo),   *)
(* a u64 a tuple of four such limbs, least significant first, so that     *)
(* every 32-bit and 64-bit value of the program is represented exactly.   *)
(***************************************************************************)
EXTENDS Integers, Sequences, FiniteSets, TLC

VARIABLES
    registers,        \* Emulator.registers: [0..7 -> u32]
    eflags,           \* Emulator.eflags: u32
    eip,              \* Emulator.eip: Wrapping<u32>
    memory,           \* Emulator.memory: [len, bytes], bytes holds the non-zero bytes
    stdout,           \* what io_out8 has printed, in order
    loc,              \* position of main's loop: "fetch", "check", "done", "fatal"
    fatal,            \* why the process panicked ("none" while it has not)
    overflow_checks,  \* the build profile: TRUE when arithmetic overflow panics
    binary,           \* the image placed at the load address (never changes)
    trace,            \* history: per instruction dispatched, the handler chosen and
                      \* the Emulator state before it ran
    flagcall          \* history: the arguments of the last handler's
                      \* update_eflags_sub call (<<>> when it made none)

vars == <<registers, eflags, eip, memory, stdout, loc, fatal, overflow_checks,
          binary, trace, flagcall>>

---------------------------------------------------------------------------
(* Bounds of the model.                                                    *)

MaxSteps == 9

---------------------------------------------------------------------------
(* Program constants.                                                      *)

REGISTER_COUNT == 8

EAX == 0
ECX == 1
EDX == 2
EBX == 3
ESP == 4
EBP == 5
ESI == 6
EDI == 7

AL == EAX
AH == AL + 4
CL == ECX
CH == CL + 4
DL == EDX
DH == DL + 4
BL == EBX
BH == BL + 4

CARRY_FLAG == 0
ZERO_FLAG == 6
SIGN_FLAG == 7
OVERFLOW_FLAG == 11

\* main.rs: Emulator::new(0x4_000_000, 0x7c00, 0x7c00) and emu.memory[i + 0x7c00]
MEMORY_SIZE == \h4000000
LOAD_ADDRESS == <<\h7c00, 0>>

\* the serial port of io_in8 / io_out8
SERIAL_PORT == \h03f8

---------------------------------------------------------------------------
(* Fixed-width integers.                                                   *)

B16 == 2 ^ 16

Limb == 0 .. (B16 - 1)
Byte == 0 .. 255

\* the u32 with the given high and low 16-bit halves
W(hi, lo) == <<lo, hi>>

Zero32 == <<0, 0>>

\* u8 as u32 / usize as u32 for a small number
U32(n) == <<n % B16, (n \div B16) % B16>>

\* u32::wrapping_add, and `+=` on Wrapping<u32>
wrapping_add(a, b) ==
    LET lo == a[1] + b[1]
        hi == a[2] + b[2] + (lo \div B16)
    IN  <<lo % B16, hi % B16>>

\* u32::wrapping_sub
wrapping_sub(a, b) ==
    LET lo == a[1] - b[1]
        hi == a[2] - b[2] - (IF lo < 0 THEN 1 ELSE 0)
    IN  <<(lo + B16) % B16, (hi + B16) % B16>>

\* a + b does not fit a u32
AddOverflows(a, b) == a[2] + b[2] + ((a[1] + b[1]) \div B16) >= B16

\* a - b is below zero
SubUnderflows(a, b) == a[2] < b[2] \/ (a[2] = b[2] /\ a[1] < b[1])

\* u32 as u64
AsU64(a) == <<a[1], a[2], 0, 0>>

\* u64::wrapping_sub
wrapping_sub64(x, y) ==
    LET d1 == x[1] - y[1]
        d2 == x[2] - y[2] - (IF d1 < 0 THEN 1 ELSE 0)
        d3 == x[3] - y[3] - (IF d2 < 0 THEN 1 ELSE 0)
        d4 == x[4] - y[4] - (IF d3 < 0 THEN 1 ELSE 0)
    IN  <<(d1 + B16) % B16, (d2 + B16) % B16, (d3 + B16) % B16, (d4 + B16) % B16>>

Pow2(n) == 2 ^ n

\* BitField::get_bit on a u32 or a u64
get_bit(w, i) == (w[(i \div 16) + 1] \div Pow2(i % 16)) % 2 = 1

\* BitField::set_bit on a u32
set_bit(w, i, b) ==
    LET k == (i \div 16) + 1
        p == Pow2(i % 16)
        cleared == w[k] - (IF get_bit(w, i) THEN p ELSE 0)
    IN  [w EXCEPT ![k] = cleared + (IF b THEN p ELSE 0)]

\* u8 as i8 as u32 (and i8 as i32): sign extension of a byte
SignExtend8(b) == IF b >= 128 THEN <<65280 + b, 65535>> ELSE <<b, 0>>

\* u32::from_le_bytes
from_le_bytes(b0, b1, b2, b3) == <<b0 + 256 * b1, b2 + 256 * b3>>

\* u32::to_le_bytes
to_le_bytes(w) == <<w[1] % 256, w[1] \div 256, w[2] % 256, w[2] \div 256>>

\* w & 0xff, w & 0xff00, w & 0xffff as numbers
LowByte(w) == w[1] % 256
SecondByte(w) == (w[1] \div 256) * 256
LowWord(w) == w[1]


---------------------------------------------------------------------------
(* The Emulator value threaded through a handler: the struct's fields,     *)
(* what has been printed, whether the handler has panicked, and the        *)
(* arguments of its update_eflags_sub call (<<>> when it made none).       *)
(* Once `fatal` is set nothing reads or writes any more.                   *)

Ok(s) == s.fatal = "none"

panic(s, why) == [s EXCEPT !.fatal = why]

\* a value read, with the state the read leaves (it can panic)
Ret(s, v) == [s |-> s, v |-> v]

\* `a + b` on u32: panics in a build with overflow checks, wraps in one without
checked_add(s, a, b) ==
    IF ~Ok(s) THEN Ret(s, Zero32)
    ELSE IF AddOverflows(a, b) /\ overflow_checks
         THEN Ret(panic(s, "overflow"), Zero32)
         ELSE Ret(s, wrapping_add(a, b))

\* `a - b` on u32
checked_sub(s, a, b) ==
    IF ~Ok(s) THEN Ret(s, Zero32)
    ELSE IF SubUnderflows(a, b) /\ overflow_checks
         THEN Ret(panic(s, "overflow"), Zero32)
         ELSE Ret(s, wrapping_sub(a, b))

\* `a + b` on i32 (operands and result as their 32 bits)
checked_add_i32(s, a, b) ==
    LET sum == wrapping_add(a, b)
        overflows == get_bit(a, 31) = get_bit(b, 31) /\ get_bit(sum, 31) # get_bit(a, 31)
    IN  IF ~Ok(s) THEN Ret(s, Zero32)
        ELSE IF overflows /\ overflow_checks
             THEN Ret(panic(s, "overflow"), Zero32)
             ELSE Ret(s, sum)

---------------------------------------------------------------------------
(* Memory: Vec<u8> of fixed length, zero-filled at construction.           *)

NewMemory(size) == [len |-> size, bytes |-> <<>>]

\* address as usize is a valid index of the Vec
InBounds(mem, a) == a[2] < 2 ^ 15 /\ a[2] * B16 + a[1] < mem.len

Index(a) == a[2] * B16 + a[1]

Peek(mem, i) == IF i \in DOMAIN mem.bytes THEN mem.bytes[i] ELSE 0

Poke(mem, i, b) ==
    LET old == mem.bytes
        new == IF b = 0
               THEN [j \in DOMAIN old \ {i} |-> old[j]]
               ELSE [j \in DOMAIN old \cup {i} |-> IF j = i THEN b ELSE old[j]]
    IN  [mem EXCEPT !.bytes = new]

\* emulator.rs:428 get_memory8: self.memory[address as usize]
get_memory8(s, address) ==
    IF ~Ok(s) THEN Ret(s, 0)
    ELSE IF ~InBounds(s.memory, address) THEN Ret(panic(s, "index"), 0)
    ELSE Ret(s, Peek(s.memory, Index(address)))

\* set_memory8 dropping a write outside the memory instead of panicking
set_memory8_drops(s, address, value) ==
    IF ~Ok(s) THEN s
    ELSE IF ~InBounds(s.memory, address) THEN s
    ELSE [s EXCEPT !.memory = Poke(@, Index(address), value)]

\* emulator.rs:438 set_memory8
set_memory8(s, address, value) ==
    IF ~Ok(s) THEN s
    ELSE IF ~InBounds(s.memory, address) THEN panic(s, "index")
    ELSE [s EXCEPT !.memory = Poke(@, Index(address), value)]

\* emulator.rs:420 get_memory32: four byte reads in order, little-endian
get_memory32(s, address) ==
    LET b0 == get_memory8(s, address)
        a1 == checked_add(b0.s, address, U32(1))
        b1 == get_memory8(a1.s, a1.v)
        a2 == checked_add(b1.s, address, U32(2))
        b2 == get_memory8(a2.s, a2.v)
        a3 == checked_add(b2.s, address, U32(3))
        b3 == get_memory8(a3.s, a3.v)
    IN  Ret(b3.s, from_le_bytes(b0.v, b1.v, b2.v, b3.v))

\* emulator.rs:431 set_memory32: four byte writes in order, little-endian
set_memory32(s, address, value) ==
    LET b  == to_le_bytes(value)
        a0 == checked_add(s, address, U32(0))
        s0 == set_memory8(a0.s, a0.v, b[1])
        a1 == checked_add(s0, address, U32(1))
        s1 == set_memory8(a1.s, a1.v, b[2])
        a2 == checked_add(s1, address, U32(2))
        s2 == set_memory8(a2.s, a2.v, b[3])
        a3 == checked_add(s2, address, U32(3))
    IN  set_memory8(a3.s, a3.v, b[4])

---------------------------------------------------------------------------
(* Instruction fetch.                                                      *)

\* emulator.rs:290 get_code8: memory[(eip + Wrapping(index)).0 as usize]
get_code8(s, index) ==
    IF ~Ok(s) THEN Ret(s, 0)
    ELSE get_memory8(s, wrapping_add(s.eip, U32(index)))

\* emulator.rs:294 get_sign_code8: the byte as i8 (same bits)
get_sign_code8(s, index) == get_code8(s, index)

\* emulator.rs:298 get_code32
get_code32(s, index) ==
    LET b0 == get_code8(s, index)
        b1 == get_code8(b0.s, index + 1)
        b2 == get_code8(b1.s, index + 2)
        b3 == get_code8(b2.s, index + 3)
    IN  Ret(b3.s, from_le_bytes(b0.v, b1.v, b2.v, b3.v))

\* emulator.rs:307 get_sign_code32: the u32 as i32 (same bits)
get_sign_code32(s, index) == get_code32(s, index)

\* self.eip += n
eip_add(s, n) == IF ~Ok(s) THEN s ELSE [s EXCEPT !.eip = wrapping_add(@, n)]

\* self.eip = Wrapping(address)
eip_set(s, address) == IF ~Ok(s) THEN s ELSE [s EXCEPT !.eip = address]

---------------------------------------------------------------------------
(* ModRM (src/emulator/modrm.rs).                                          *)

\* from_code with the reg and rm fields exchanged
from_code_swapped(code) ==
    [md |-> code \div 64, op |-> code % 8, rm |-> (code \div 8) % 8,
     sib |-> 0, disp |-> Zero32]

from_code(code) ==
    [md |-> code \div 64, op |-> (code \div 8) % 8, rm |-> code % 8,
     sib |-> 0, disp |-> Zero32]

is_reg(modrm) == modrm.md = 3

has_sib(modrm) == modrm.md # 3 /\ modrm.rm = 4

has_disp8(modrm) == modrm.md = 1

has_disp32(modrm) == modrm.md = 2 \/ (modrm.md = 0 /\ modrm.rm = 5)

set_sib(modrm, sib) == [modrm EXCEPT !.sib = sib]

\* set_disp8 without the sign extension (the byte taken as a u8)
set_disp8_zero_extends(modrm, disp) == [modrm EXCEPT !.disp = U32(disp)]

\* disp as i32 from an i8
set_disp8(modrm, disp) == [modrm EXCEPT !.disp = SignExtend8(disp)]

set_disp32(modrm, disp) == [modrm EXCEPT !.disp = disp]

\* emulator.rs:127 parse_modrm
parse_modrm(s) ==
    LET c  == get_code8(s, 0)
        m0 == from_code(c.v)
        s1 == eip_add(c.s, U32(1))
        sb == get_code8(s1, 0)
        m1 == IF has_sib(m0) THEN set_sib(m0, sb.v) ELSE m0
        s2 == IF has_sib(m0) THEN eip_add(sb.s, U32(1)) ELSE s1
        d4 == get_sign_code32(s2, 0)
        d1 == get_sign_code8(s2, 0)
    IN  IF has_disp32(m1) THEN Ret(eip_add(d4.s, U32(4)), set_disp32(m1, d4.v))
        ELSE IF has_disp8(m1) THEN Ret(eip_add(d1.s, U32(1)), set_disp8(m1, d1.v))
        ELSE Ret(s2, m1)

---------------------------------------------------------------------------
(* Registers.                                                              *)

\* emulator.rs:381 set_register32
set_register32(s, reg, value) ==
    IF ~Ok(s) THEN s ELSE [s EXCEPT !.registers[reg] = value]

\* emulator.rs:384 get_register32
get_register32(s, reg) == s.registers[reg]

\* emulator.rs:615 get_register8: the result is cast to u8
get_register8(s, index) ==
    IF index < 4
    THEN LowByte(get_register32(s, index)) % 256
    ELSE SecondByte(get_register32(s, index - 4)) % 256

\* emulator.rs:622 set_register8
set_register8(s, index, value) ==
    IF index < 4
    THEN LET w == get_register32(s, index)
             r == <<w[1] - LowByte(w), w[2]>>
         IN  set_register32(s, index, <<r[1] + value, r[2]>>)
    ELSE LET w == get_register32(s, index - 4)
             r == <<w[1] - SecondByte(w), w[2]>>
         IN  set_register32(s, index, <<r[1] + value * 256, r[2]>>)

---------------------------------------------------------------------------
(* Operands named by a ModRM.                                              *)

\* calc_memory_address taking rm = 4 for the register ESP, as it takes every other rm
calc_memory_address_esp_base(s, modrm) ==
    IF ~Ok(s) THEN Ret(s, Zero32)
    ELSE CASE modrm.md = 0 ->
                IF modrm.rm = 5 THEN Ret(s, modrm.disp)
                ELSE Ret(s, get_register32(s, modrm.rm))
           [] modrm.md \in {1, 2} ->
                Ret(s, wrapping_add(get_register32(s, modrm.rm), modrm.disp))
           [] modrm.md = 3 -> Ret(panic(s, "unimplemented"), Zero32)

\* emulator.rs:387 calc_memory_address
calc_memory_address(s, modrm) ==
    IF ~Ok(s) THEN Ret(s, Zero32)
    ELSE CASE modrm.md = 0 ->
                IF modrm.rm = 4 THEN Ret(panic(s, "unimplemented"), Zero32)
                ELSE IF modrm.rm = 5 THEN Ret(s, modrm.disp)
                ELSE Ret(s, get_register32(s, modrm.rm))
           [] modrm.md = 1 ->
                IF modrm.rm = 4 THEN Ret(panic(s, "unimplemented"), Zero32)
                ELSE Ret(s, wrapping_add(get_register32(s, modrm.rm), modrm.disp))
           [] modrm.md = 2 ->
                IF modrm.rm = 4 THEN Ret(panic(s, "unimplemented"), Zero32)
                ELSE Ret(s, wrapping_add(get_register32(s, modrm.rm), modrm.disp))
           [] modrm.md = 3 -> Ret(panic(s, "unimplemented"), Zero32)

\* emulator.rs:346 get_rm32
get_rm32(s, modrm) ==
    IF is_reg(modrm) THEN Ret(s, get_register32(s, modrm.rm))
    ELSE LET address == calc_memory_address(s, modrm)
         IN  get_memory32(address.s, address.v)

\* emulator.rs:355 set_rm32
set_rm32(s, modrm, value) ==
    IF is_reg(modrm) THEN set_register32(s, modrm.rm, value)
    ELSE LET address == calc_memory_address(s, modrm)
         IN  set_memory32(address.s, address.v, value)

\* emulator.rs:364 get_rm8
get_rm8(s, modrm) ==
    IF is_reg(modrm) THEN Ret(s, get_register8(s, modrm.rm))
    ELSE LET address == calc_memory_address(s, modrm)
         IN  get_memory8(address.s, address.v)

\* emulator.rs:373 set_rm8
set_rm8(s, modrm, value) ==
    IF is_reg(modrm) THEN set_register8(s, modrm.rm, value)
    ELSE LET address == calc_memory_address(s, modrm)
         IN  set_memory8(address.s, address.v, value)

\* emulator.rs:442 get_r32
get_r32(s, modrm) == get_register32(s, modrm.op)

\* emulator.rs:445 set_r32
set_r32(s, modrm, value) == set_register32(s, modrm.op, value)

\* emulator.rs:448 get_r8
get_r8(s, modrm) == get_register8(s, modrm.op)

\* emulator.rs:451 set_r8
set_r8(s, modrm, value) == set_register8(s, modrm.op, value)

---------------------------------------------------------------------------
(* Flags.                                                                  *)

get_flag(s, flag) == get_bit(s.eflags, flag)
get_carry(s) == get_bit(s.eflags, CARRY_FLAG)
get_zero(s) == get_bit(s.eflags, ZERO_FLAG)
get_sign(s) == get_bit(s.eflags, SIGN_FLAG)
get_overflow(s) == get_bit(s.eflags, OVERFLOW_FLAG)

set_carry(s, is_carry) == [s EXCEPT !.eflags = set_bit(@, CARRY_FLAG, is_carry)]
set_zero(s, is_zero) == [s EXCEPT !.eflags = set_bit(@, ZERO_FLAG, is_zero)]
\* the sign stored one bit too high
set_sign_bit8(s, is_sign) == [s EXCEPT !.eflags = set_bit(@, SIGN_FLAG + 1, is_sign)]
set_sign(s, is_sign) == [s EXCEPT !.eflags = set_bit(@, SIGN_FLAG, is_sign)]
set_overflow(s, is_overflow) == [s EXCEPT !.eflags = set_bit(@, OVERFLOW_FLAG, is_overflow)]

\* update_eflags_sub with the carry taken one bit too low (result >> 31)
update_eflags_sub_shift31(s, v1, v2, result) ==
    LET sign1 == get_bit(v1, 31)
        sign2 == get_bit(v2, 31)
        signr == get_bit(result, 31)
        s1 == set_carry(s, signr \/ result[3] > 0 \/ result[4] > 0)
        s2 == set_zero(s1, result = <<0, 0, 0, 0>>)
        s3 == set_sign(s2, signr)
        s4 == set_overflow(s3, sign1 # sign2 /\ sign1 # signr)
    IN  IF ~Ok(s) THEN s
        ELSE [s4 EXCEPT !.flagcall = [v1 |-> v1, v2 |-> v2, result |-> result]]

\* emulator.rs:526 update_eflags_sub; result is a u64
update_eflags_sub(s, v1, v2, result) ==
    LET sign1 == get_bit(v1, 31)
        sign2 == get_bit(v2, 31)
        signr == get_bit(result, 31)
        s1 == set_carry(s, result[3] > 0 \/ result[4] > 0)
        s2 == set_zero(s1, result = <<0, 0, 0, 0>>)
        s3 == set_sign(s2, signr)
        s4 == set_overflow(s3, sign1 # sign2 /\ sign1 # signr)
    IN  IF ~Ok(s) THEN s
        ELSE [s4 EXCEPT !.flagcall = [v1 |-> v1, v2 |-> v2, result |-> result]]

\* emulator.rs:280 get_cond_be
get_cond_be(s) == get_carry(s) \/ get_zero(s)

\* emulator.rs:283 get_cond_l
get_cond_l(s) == get_sign(s) # get_overflow(s)

\* get_cond_le with `&&` for `||`
get_cond_le_and(s) == get_zero(s) /\ get_sign(s) # get_overflow(s)

\* emulator.rs:286 get_cond_le
get_cond_le(s) == get_zero(s) \/ get_sign(s) # get_overflow(s)

---------------------------------------------------------------------------
(* The stack.                                                              *)

\* push32 storing at the old stack pointer (store before the decrement takes effect)
push32_stores_high(s, value) ==
    LET address == checked_sub(s, get_register32(s, ESP), U32(4))
        s1 == set_register32(address.s, ESP, address.v)
    IN  set_memory32(s1, get_register32(s, ESP), value)

\* emulator.rs:473 push32
push32(s, value) ==
    LET address == checked_sub(s, get_register32(s, ESP), U32(4))
        s1 == set_register32(address.s, ESP, address.v)
    IN  set_memory32(s1, address.v, value)

\* emulator.rs:486 pop32
pop32(s) ==
    LET address == get_register32(s, ESP)
        value == get_memory32(s, address)
        next == checked_add(value.s, address, U32(4))
    IN  Ret(set_register32(next.s, ESP, next.v), value.v)

---------------------------------------------------------------------------
(* The I/O ports.                                                          *)

\* emulator.rs:564 io_in8; line is what read_line appends to the buffer
io_in8(s, address, line) ==
    IF ~Ok(s) THEN Ret(s, 0)
    ELSE IF address = SERIAL_PORT
         THEN IF Len(line) = 0 THEN Ret(panic(s, "index"), 0) ELSE Ret(s, line[1])
         ELSE Ret(s, 0)

\* u8::is_ascii
is_ascii(value) == value < 128

\* emulator.rs:574 io_out8
io_out8(s, address, value) ==
    IF ~Ok(s) THEN s
    ELSE IF address = SERIAL_PORT
         THEN [s EXCEPT !.stdout =
                  Append(@, IF is_ascii(value)
                            THEN [fmt |-> "char", value |-> value]
                            ELSE [fmt |-> "hex", value |-> value])]
         ELSE s

---------------------------------------------------------------------------
(* The instruction handlers.                                               *)

\* emulator.rs:152
mov_r32_imm32(s) ==
    LET code == get_code8(s, 0)
        reg == code.v - \hb8
        value == get_code32(code.s, 1)
    IN  eip_add(set_register32(value.s, reg, value.v), U32(5))

\* emulator.rs:159
mov_rm32_imm32(s) ==
    LET p == parse_modrm(eip_add(s, U32(1)))
        value == get_code32(p.s, 0)
    IN  set_rm32(eip_add(value.s, U32(4)), p.v, value.v)

\* emulator.rs:166
mov_rm32_r32(s) ==
    LET p == parse_modrm(eip_add(s, U32(1)))
        r32 == get_r32(p.s, p.v)
    IN  set_rm32(p.s, p.v, r32)

\* emulator.rs:172
mov_r32_rm32(s) ==
    LET p == parse_modrm(eip_add(s, U32(1)))
        rm32 == get_rm32(p.s, p.v)
    IN  set_r32(rm32.s, p.v, rm32.v)

\* emulator.rs:178
add_rm32_r32(s) ==
    LET p == parse_modrm(eip_add(s, U32(1)))
        r32 == get_r32(p.s, p.v)
        rm32 == get_rm32(p.s, p.v)
    IN  set_rm32(rm32.s, p.v, wrapping_add(rm32.v, r32))

\* emulator.rs:185
add_rm32_imm8(s, modrm) ==
    LET rm32 == get_rm32(s, modrm)
        imm8 == get_sign_code8(rm32.s, 0)
    IN  set_rm32(eip_add(imm8.s, U32(1)), modrm,
                 wrapping_add(rm32.v, SignExtend8(imm8.v)))

\* emulator.rs:191
sub_rm32_imm8(s, modrm) ==
    LET rm32 == get_rm32(s, modrm)
        raw == get_sign_code8(rm32.s, 0)
        imm8 == SignExtend8(raw.v)
        s1 == eip_add(raw.s, U32(1))
        result == wrapping_sub64(AsU64(rm32.v), AsU64(imm8))
        s2 == update_eflags_sub(s1, rm32.v, imm8, result)
    IN  set_rm32(s2, modrm, wrapping_sub(rm32.v, imm8))

\* emulator.rs:250
cmp_rm32_imm8(s, modrm) ==
    LET rm32 == get_rm32(s, modrm)
        raw == get_sign_code8(rm32.s, 0)
        imm8 == SignExtend8(raw.v)
        s1 == eip_add(raw.s, U32(1))
        result == wrapping_sub64(AsU64(rm32.v), AsU64(imm8))
    IN  update_eflags_sub(s1, rm32.v, imm8, result)

\* emulator.rs:199
code_83(s) ==
    LET p == parse_modrm(eip_add(s, U32(1)))
    IN  IF ~Ok(p.s) THEN p.s
        ELSE CASE p.v.op = 0 -> add_rm32_imm8(p.s, p.v)
               [] p.v.op = 5 -> sub_rm32_imm8(p.s, p.v)
               [] p.v.op = 7 -> cmp_rm32_imm8(p.s, p.v)
               [] OTHER -> panic(p.s, "unimplemented")

\* emulator.rs:209
inc_rm32(s, modrm) ==
    LET value == get_rm32(s, modrm)
    IN  set_rm32(value.s, modrm, wrapping_add(value.v, U32(1)))

\* inc_r32 setting the zero flag from its result, as the hardware does
inc_r32_sets_zero(s) ==
    LET code == get_code8(s, 0)
        reg == code.v - \h40
        value == wrapping_add(get_register32(code.s, reg), U32(1))
    IN  eip_add(set_zero(set_register32(code.s, reg, value), value = Zero32), U32(1))

\* emulator.rs:214
inc_r32(s) ==
    LET code == get_code8(s, 0)
        reg == code.v - \h40
        value == get_register32(code.s, reg)
    IN  eip_add(set_register32(code.s, reg, wrapping_add(value, U32(1))), U32(1))

\* dec_rm32 with the plain `value - 1`
dec_rm32_plain(s, modrm) ==
    LET value == get_rm32(s, modrm)
        result == checked_sub(value.s, value.v, U32(1))
    IN  set_rm32(result.s, modrm, result.v)

\* emulator.rs:220
dec_rm32(s, modrm) ==
    LET value == get_rm32(s, modrm)
    IN  set_rm32(value.s, modrm, wrapping_sub(value.v, U32(1)))

\* code_ff with dec as the default arm of its match
code_ff_default_dec(s) ==
    LET p == parse_modrm(eip_add(s, U32(1)))
    IN  IF ~Ok(p.s) THEN p.s
        ELSE CASE p.v.op = 0 -> inc_rm32(p.s, p.v)
               [] OTHER -> dec_rm32(p.s, p.v)

\* emulator.rs:224
code_ff(s) ==
    LET p == parse_modrm(eip_add(s, U32(1)))
    IN  IF ~Ok(p.s) THEN p.s
        ELSE CASE p.v.op = 0 -> inc_rm32(p.s, p.v)
               [] p.v.op = 1 -> dec_rm32(p.s, p.v)
               [] OTHER -> panic(p.s, "unimplemented")

\* cmp_r32_rm32 storing the difference, as a sub would
cmp_r32_rm32_stores(s) ==
    LET p == parse_modrm(eip_add(s, U32(1)))
        r32 == get_r32(p.s, p.v)
        rm32 == get_rm32(p.s, p.v)
        result == wrapping_sub64(AsU64(r32), AsU64(rm32.v))
    IN  set_r32(update_eflags_sub(rm32.s, r32, rm32.v, result), p.v,
                wrapping_sub(r32, rm32.v))

\* emulator.rs:233
cmp_r32_rm32(s) ==
    LET p == parse_modrm(eip_add(s, U32(1)))
        r32 == get_r32(p.s, p.v)
        rm32 == get_rm32(p.s, p.v)
        result == wrapping_sub64(AsU64(r32), AsU64(rm32.v))
    IN  update_eflags_sub(rm32.s, r32, rm32.v, result)

\* emulator.rs:242
cmp_eax_imm32(s) ==
    LET s1 == eip_add(s, U32(1))
        value == get_code32(s1, 1)
        eax == get_register32(value.s, EAX)
        result == wrapping_sub64(AsU64(eax), AsU64(value.v))
    IN  update_eflags_sub(value.s, value.v, eax, result)

\* emulator.rs:258
short_jump(s) ==
    LET diff == get_sign_code8(s, 1)
    IN  eip_set(diff.s, wrapping_add(wrapping_add(s.eip, SignExtend8(diff.v)), U32(2)))

\* emulator.rs:267
near_jump(s) ==
    LET diff == get_code32(s, 1)
    IN  eip_add(diff.s, wrapping_add(diff.v, U32(5)))

\* emulator.rs:37 define_jcc_8, fn j$cc: taken when the condition holds
j_cc(s, cond) ==
    LET diff == get_sign_code8(s, 1)
    IN  IF cond
        THEN eip_add(diff.s, wrapping_add(SignExtend8(diff.v), U32(2)))
        ELSE eip_add(diff.s, U32(2))

\* emulator.rs:45 define_jcc_8, fn jn$cc: taken when the condition does not hold
jn_cc(s, cond) ==
    LET diff == get_sign_code8(s, 1)
    IN  IF ~cond
        THEN eip_add(diff.s, wrapping_add(SignExtend8(diff.v), U32(2)))
        ELSE eip_add(diff.s, U32(2))

\* emulator.rs:272-278, the instances of define_jcc_8
jc(s) == j_cc(s, get_carry(s))
jnc(s) == jn_cc(s, get_carry(s))
jz(s) == j_cc(s, get_zero(s))
jnz(s) == jn_cc(s, get_zero(s))
js(s) == j_cc(s, get_sign(s))
jns(s) == jn_cc(s, get_sign(s))
jo(s) == j_cc(s, get_overflow(s))
jno(s) == jn_cc(s, get_overflow(s))
jbe(s) == j_cc(s, get_cond_be(s))
jnbe(s) == jn_cc(s, get_cond_be(s))
jl(s) == j_cc(s, get_cond_l(s))
jnl(s) == jn_cc(s, get_cond_l(s))
jle(s) == j_cc(s, get_cond_le(s))
jnle(s) == jn_cc(s, get_cond_le(s))

\* emulator.rs:455
push_r32(s) ==
    LET code == get_code8(s, 0)
        reg == code.v - \h50
    IN  eip_add(push32(code.s, get_register32(code.s, reg)), U32(1))

\* emulator.rs:461
push_imm32(s) ==
    LET value == get_code32(s, 1)
    IN  eip_add(push32(value.s, value.v), U32(5))

\* emulator.rs:467
push_imm8(s) ==
    LET value == get_code8(s, 1)
    IN  eip_add(push32(value.s, U32(value.v)), U32(2))

\* emulator.rs:479
pop_r32(s) ==
    LET code == get_code8(s, 0)
        reg == code.v - \h58
        value == pop32(code.s)
    IN  eip_add(set_register32(value.s, reg, value.v), U32(1))

\* call_rel32 pushing the address of the call instead of the one after it
call_rel32_pushes_eip(s) ==
    LET diff == get_sign_code32(s, 1)
        s1 == push32(diff.s, s.eip)
        target == checked_add_i32(s1, diff.v, U32(5))
    IN  eip_add(target.s, target.v)

\* emulator.rs:493
call_rel32(s) ==
    LET diff == get_sign_code32(s, 1)
        return_address == checked_add(diff.s, s.eip, U32(5))
        s1 == push32(return_address.s, return_address.v)
        target == checked_add_i32(s1, diff.v, U32(5))
    IN  eip_add(target.s, target.v)

\* ret adding the popped value to eip, as the relative jumps do
ret_relative(s) ==
    LET address == pop32(s)
    IN  eip_add(address.s, address.v)

\* emulator.rs:499
ret(s) ==
    LET address == pop32(s)
    IN  eip_set(address.s, address.v)

\* emulator.rs:504
leave(s) ==
    LET ebp == get_register32(s, EBP)
        s1 == set_register32(s, ESP, ebp)
        value == pop32(s1)
    IN  eip_add(set_register32(value.s, EBP, value.v), U32(1))

\* emulator.rs:512; line is the line read from stdin when the port is the serial port
in_al_dx(s, line) ==
    LET address == LowWord(get_register32(s, EDX))
        value == io_in8(s, address, line)
    IN  eip_add(set_register8(value.s, AL, value.v), U32(1))

\* emulator.rs:519
out_dx_al(s) ==
    LET address == LowWord(get_register32(s, EDX))
        value == get_register8(s, AL)
    IN  eip_add(io_out8(s, address, value), U32(1))

\* emulator.rs:587
mov_r8_imm8(s) ==
    LET code == get_code8(s, 0)
        reg == code.v - \hb0
        value == get_code8(code.s, 1)
    IN  eip_add(set_register8(value.s, reg, value.v), U32(2))

\* emulator.rs:593
mov_rm8_r8(s) ==
    LET p == parse_modrm(eip_add(s, U32(1)))
        r8 == get_r8(p.s, p.v)
    IN  set_rm8(p.s, p.v, r8)

\* emulator.rs:600
mov_r8_rm8(s) ==
    LET p == parse_modrm(eip_add(s, U32(1)))
        rm8 == get_rm8(p.s, p.v)
    IN  set_r8(rm8.s, p.v, rm8.v)

\* emulator.rs:607
cmp_al_imm8(s) ==
    LET value == get_code8(s, 1)
        al == get_register8(value.s, AL)
        result == wrapping_sub64(AsU64(U32(al)), AsU64(U32(value.v)))
    IN  eip_add(update_eflags_sub(value.s, U32(al), U32(value.v), result), U32(2))

---------------------------------------------------------------------------
(* The dispatcher.                                                         *)

\* emulator.rs:80 instruction: the handler chosen for the byte at eip
instruction(s) ==
    LET code == get_code8(s, 0)
        c == code.v
    IN  IF ~Ok(code.s) THEN Ret(code.s, "none")
        ELSE Ret(code.s,
             CASE c = \h01 -> "add_rm32_r32"
               [] c = \h3b -> "cmp_r32_rm32"
               [] c = \h3c -> "cmp_al_imm8"
               [] c = \h3d -> "cmp_eax_imm32"
               [] c \in \h40 .. \h47 -> "inc_r32"
               [] c \in \h50 .. \h57 -> "push_r32"
               [] c \in \h58 .. \h5f -> "pop_r32"
               [] c = \h68 -> "push_imm32"
               [] c = \h6a -> "push_imm8"
               [] c = \h70 -> "jo"
               [] c = \h71 -> "jno"
               [] c = \h72 -> "jc"
               [] c = \h73 -> "jnc"
               [] c = \h74 -> "jz"
               [] c = \h75 -> "jnz"
               [] c = \h76 -> "jbe"
               [] c = \h77 -> "jnbe"
               [] c = \h78 -> "js"
               [] c = \h79 -> "jns"
               [] c = \h7c -> "jl"
               [] c = \h7d -> "jnl"
               [] c = \h7e -> "jle"
               [] c = \h7f -> "jnle"
               [] c = \h83 -> "code_83"
               [] c = \h88 -> "mov_rm8_r8"
               [] c = \h89 -> "mov_rm32_r32"
               [] c = \h8a -> "mov_r8_rm8"
               [] c = \h8b -> "mov_r32_rm32"
               [] c \in \hb0 .. \hb7 -> "mov_r8_imm8"
               [] c \in \hb8 .. \hbf -> "mov_r32_imm32"
               [] c = \hc3 -> "ret"
               [] c = \hc7 -> "mov_rm32_imm32"
               [] c = \hc9 -> "leave"
               [] c = \he8 -> "call_rel32"
               [] c = \he9 -> "near_jump"
               [] c = \heb -> "short_jump"
               [] c = \hec -> "in_al_dx"
               [] c = \hee -> "out_dx_al"
               [] c = \hff -> "code_ff"
               [] OTHER -> "unimplemented")

---------------------------------------------------------------------------
(* Construction and the run loop (src/main.rs).                            *)

\* emulator.rs:69 Emulator::new
new(size, eip0, esp0) ==
    [registers |-> [r \in 0 .. (REGISTER_COUNT - 1) |-> IF r = ESP THEN esp0 ELSE Zero32],
     eflags |-> Zero32,
     eip |-> eip0,
     memory |-> NewMemory(size)]

\* main.rs:14-16: data[i] is stored at memory[i + base], in order
RECURSIVE LoadImage(_, _, _)
LoadImage(mem, data, base) ==
    IF data = <<>> THEN mem
    ELSE LoadImage(Poke(mem, base, Head(data)), Tail(data), base + 1)

\* the Emulator as the handlers see it
Cur ==
    [registers |-> registers, eflags |-> eflags, eip |-> eip, memory |-> memory,
     stdout |-> stdout, fatal |-> "none", flagcall |-> <<>>]

Snapshot ==
    [registers |-> registers, eflags |-> eflags, eip |-> eip, memory |-> memory]

\* number of instructions dispatched so far
steps == Len(trace)

\* the handler the dispatcher chose last, and the Emulator state before it ran
last == IF trace = <<>> THEN "none" ELSE trace[Len(trace)].name
pre == IF trace = <<>> THEN Snapshot ELSE trace[Len(trace)].before

\* the state a handler leaves, and where the loop goes from it
Finish(name, s) ==
    /\ registers' = s.registers
    /\ eflags' = s.eflags
    /\ eip' = s.eip
    /\ memory' = s.memory
    /\ stdout' = s.stdout
    /\ fatal' = s.fatal
    /\ loc' = IF Ok(s) THEN "check" ELSE "fatal"
    /\ trace' = Append(trace, [name |-> name, before |-> Snapshot])
    /\ flagcall' = s.flagcall
    /\ UNCHANGED <<overflow_checks, binary>>

\* main.rs:21 instruction(&mut emu): the call through the function pointer
Call(name, s) ==
    CASE name = "add_rm32_r32" -> add_rm32_r32(s)
      [] name = "cmp_r32_rm32" -> cmp_r32_rm32(s)
      [] name = "cmp_al_imm8" -> cmp_al_imm8(s)
      [] name = "cmp_eax_imm32" -> cmp_eax_imm32(s)
      [] name = "inc_r32" -> inc_r32(s)
      [] name = "push_r32" -> push_r32(s)
      [] name = "pop_r32" -> pop_r32(s)
      [] name = "push_imm32" -> push_imm32(s)
      [] name = "push_imm8" -> push_imm8(s)
      [] name = "jo" -> jo(s)
      [] name = "jno" -> jno(s)
      [] name = "jc" -> jc(s)
      [] name = "jnc" -> jnc(s)
      [] name = "jz" -> jz(s)
      [] name = "jnz" -> jnz(s)
      [] name = "jbe" -> jbe(s)
      [] name = "jnbe" -> jnbe(s)
      [] name = "js" -> js(s)
      [] name = "jns" -> jns(s)
      [] name = "jl" -> jl(s)
      [] name = "jnl" -> jnl(s)
      [] name = "jle" -> jle(s)
      [] name = "jnle" -> jnle(s)
      [] name = "code_83" -> code_83(s)
      [] name = "mov_rm8_r8" -> mov_rm8_r8(s)
      [] name = "mov_rm32_r32" -> mov_rm32_r32(s)
      [] name = "mov_r8_rm8" -> mov_r8_rm8(s)
      [] name = "mov_r32_rm32" -> mov_r32_rm32(s)
      [] name = "mov_r8_imm8" -> mov_r8_imm8(s)
      [] name = "mov_r32_imm32" -> mov_r32_imm32(s)
      [] name = "ret" -> ret(s)
      [] name = "mov_rm32_imm32" -> mov_rm32_imm32(s)
      [] name = "leave" -> leave(s)
      [] name = "call_rel32" -> call_rel32(s)
      [] name = "near_jump" -> near_jump(s)
      [] name = "short_jump" -> short_jump(s)
      [] name = "out_dx_al" -> out_dx_al(s)
      [] name = "code_ff" -> code_ff(s)

\* main.rs:20-21: the dispatcher chooses handler `name`, which runs to its end
Exec(name) ==
    /\ loc = "fetch"
    /\ steps < MaxSteps
    /\ instruction(Cur).v = name
    /\ Finish(name, Call(name, Cur))

\* emulator.rs:123 the dispatcher's `_` arm
Unimplemented ==
    /\ loc = "fetch"
    /\ steps < MaxSteps
    /\ instruction(Cur).v = "unimplemented"
    /\ Finish("unimplemented", panic(Cur, "unimplemented"))

\* emulator.rs:81 the fetch of the opcode byte is out of the memory's bounds
FetchPanic ==
    /\ loc = "fetch"
    /\ steps < MaxSteps
    /\ ~Ok(instruction(Cur).s)
    /\ Finish("instruction", instruction(Cur).s)

\* the lines read_line can append: nothing at end of input, else a line
StdinLines == {<<>>, <<\h41, \h0a>>, <<\hc3, \ha9, \h0a>>}

ExecIn ==
    /\ loc = "fetch"
    /\ steps < MaxSteps
    /\ instruction(Cur).v = "in_al_dx"
    /\ \E line \in StdinLines : Finish("in_al_dx", in_al_dx(Cur, line))

\* the loop's test inverted: break unless eip is 0
LoopCheck_inverted ==
    /\ loc = "check"
    /\ loc' = IF eip # <<0, 0>> THEN "done" ELSE "fetch"
    /\ UNCHANGED <<registers, eflags, eip, memory, stdout, fatal, overflow_checks,
                   binary, trace, flagcall>>

\* main.rs:22-24: if emu.eip.0 == 0 { break; }
LoopCheck ==
    /\ loc = "check"
    /\ loc' = IF eip = Zero32 THEN "done" ELSE "fetch"
    /\ UNCHANGED <<registers, eflags, eip, memory, stdout, fatal, overflow_checks,
                   binary, trace, flagcall>>

Next ==
    \/ Exec("add_rm32_r32")
    \/ Exec("cmp_r32_rm32")
    \/ Exec("cmp_al_imm8")
    \/ Exec("cmp_eax_imm32")
    \/ Exec("inc_r32")
    \/ Exec("push_r32")
    \/ Exec("pop_r32")
    \/ Exec("push_imm32")
    \/ Exec("push_imm8")
    \/ Exec("jo")
    \/ Exec("jno")
    \/ Exec("jc")
    \/ Exec("jnc")
    \/ Exec("jz")
    \/ Exec("jnz")
    \/ Exec("jbe")
    \/ Exec("jnbe")
    \/ Exec("js")
    \/ Exec("jns")
    \/ Exec("jl")
    \/ Exec("jnl")
    \/ Exec("jle")
    \/ Exec("jnle")
    \/ Exec("code_83")
    \/ Exec("mov_rm8_r8")
    \/ Exec("mov_rm32_r32")
    \/ Exec("mov_r8_rm8")
    \/ Exec("mov_r32_rm32")
    \/ Exec("mov_r8_imm8")
    \/ Exec("mov_r32_imm32")
    \/ Exec("ret")
    \/ Exec("mov_rm32_imm32")
    \/ Exec("leave")
    \/ Exec("call_rel32")
    \/ Exec("near_jump")
    \/ Exec("short_jump")
    \/ ExecIn
    \/ Exec("out_dx_al")
    \/ Exec("code_ff")
    \/ Unimplemented
    \/ FetchPanic
    \/ LoopCheck

---------------------------------------------------------------------------
(* The images main can load.                                               *)

Imm32(w) == to_le_bytes(w)

ModRMByte(md, op, rm) == md * 64 + op * 8 + rm

\* jmp rel32 from the instruction at offset `at` of the image to address 0
JmpZero(at) == <<\he9>> \o Imm32(wrapping_sub(Zero32, wrapping_add(LOAD_ADDRESS, U32(at + 5))))

\* mov eax, 5; mov ebx, 3; cmp eax, ebx; jmp 0
CompareImage ==
    <<\hb8, 5, 0, 0, 0, \hbb, 3, 0, 0, 0, \h3b, ModRMByte(3, EAX, EBX)>> \o JmpZero(12)

\* what the subroutine of CallImage does between its prologue and its leave
FrameValue == W(\h1122, \h3344)
ElseWhere == W(\h0000, \h7c0f)
QuietBodies ==
    { <<>>,
      <<\h50, \h58>>,                                                 \* push eax; pop eax
      <<\h40>>,                                                       \* inc eax
      <<\h6a, 7, \h59>>,                                              \* push 7; pop ecx
      <<\h89, ModRMByte(1, EAX, EBP), \hfc>>,                         \* mov [ebp-4], eax
      <<\hc7, ModRMByte(1, 0, EBP), \hf8>> \o Imm32(FrameValue) }     \* mov [ebp-8], imm32
ClobberBodies ==
    { <<\hc7, ModRMByte(1, 0, EBP), 4>> \o Imm32(ElseWhere),          \* mov [ebp+4], imm32
      <<\hc7, ModRMByte(1, 0, EBP), 0>> \o Imm32(ElseWhere),          \* mov [ebp], imm32
      <<\h89, ModRMByte(1, EAX, EBP), 4>> }                           \* mov [ebp+4], eax
OtherBodies ==
    { <<\h83, ModRMByte(3, 5, ESP), 8>>,                              \* sub esp, 8
      <<\h45>>,                                                       \* inc ebp
      <<\hb5, \h12>> }                                                \* mov ch, 0x12
Bodies == QuietBodies \cup ClobberBodies \cup OtherBodies

\* mov ebp, FrameValue; call f; jmp 0; f: push ebp; mov ebp, esp; body; leave; ret
CallImage(body) ==
    <<\hbd>> \o Imm32(FrameValue) \o <<\he8, 5, 0, 0, 0>> \o JmpZero(10)
    \o <<\h55, \h89, ModRMByte(3, ESP, EBP)>> \o body \o <<\hc9, \hc3>>

\* mov al, 1; cmp al, 2; jcc +2 for each conditional jump, then jmp 0
JccOpcodes == (\h70 .. \h79) \cup (\h7c .. \h7f)
JccImage(op) == <<\hb0, 1, \h3c, 2, op, 2, 0, 0>> \o JmpZero(8)

Images ==
    { CompareImage,
      <<\hc3>>,                                                       \* ret
      <<\hbc, 0, \h80, 0, 0, \hc3>>,                                  \* mov esp, 0x8000; ret
      <<\h58, \h58, \hc3>>,                                           \* pop eax; pop eax; ret
      <<\he8, 0, 0, 0, 0, \hc3>>,                                     \* call +0; ret
      \* mov eax, imm; add eax, eax; inc eax; add eax, 1; inc eax; dec eax; sub eax, 2;
      \* cmp eax, 1; cmp eax, 0
      <<\hb8, \hff, \hff, \hff, \h7f, \h01, ModRMByte(3, EAX, EAX), \h40,
        \h83, ModRMByte(3, 0, EAX), 1, \hff, ModRMByte(3, 0, EAX),
        \hff, ModRMByte(3, 1, EAX), \h83, ModRMByte(3, 5, EAX), 2,
        \h83, ModRMByte(3, 7, EAX), 1, \h3d, 0, 0, 0, 0>>,
      \* push imm32; push -1; pop eax; pop ecx; mov cl, al; mov al, cl; mov ecx, eax;
      \* mov eax, ecx; mov eax, imm32
      <<\h68, \h78, \h56, \h34, \h12, \h6a, \hff, \h58, \h59,
        \h88, ModRMByte(3, AL, CL), \h8a, ModRMByte(3, AL, CL),
        \h89, ModRMByte(3, EAX, ECX), \h8b, ModRMByte(3, EAX, ECX),
        \hc7, ModRMByte(3, 0, EAX), 1, 0, 0, 0>>,
      \* mov edx, 0x3f8; in al, dx; out dx, al; mov al, 0xc8; out dx, al; jmp +0; jmp 0
      <<\hba, \hf8, \h03, 0, 0, \hec, \hee, \hb0, \hc8, \hee, \heb, 0>> \o JmpZero(12),
      \* mov [0x7d00], imm32; mov eax, [0x7d00]; inc [0x7d00]; mov ah, 0x12; jmp 0
      <<\hc7, ModRMByte(0, 0, 5)>> \o Imm32(<<\h7d00, 0>>) \o Imm32(W(\hffff, \hffff))
        \o <<\h8b, ModRMByte(0, EAX, 5)>> \o Imm32(<<\h7d00, 0>>)
        \o <<\hff, ModRMByte(0, 0, 5)>> \o Imm32(<<\h7d00, 0>>)
        \o <<\hb4, \h12>> \o JmpZero(24),
      <<\he9, \hff, \hff, \hff, \h7f>>,                               \* jmp out of memory
      <<\h83, ModRMByte(3, 1, EAX), 1>>,                              \* 0x83 /1
      <<\h8b, ModRMByte(0, EAX, 4), \h24>> }                          \* mov eax, [esp] (SIB)
    \cup { CallImage(body) : body \in Bodies }
    \cup { JccImage(op) : op \in JccOpcodes }

\* main.rs:10-16: the state when the loop starts
Boot(image, checks) ==
    LET emu == new(MEMORY_SIZE, LOAD_ADDRESS, LOAD_ADDRESS)
    IN  /\ registers = emu.registers
        /\ eflags = emu.eflags
        /\ eip = emu.eip
        /\ memory = LoadImage(emu.memory, image, Index(LOAD_ADDRESS))
        /\ stdout = <<>>
        /\ loc = "fetch"
        /\ fatal = "none"
        /\ overflow_checks = checks
        /\ binary = image
        /\ trace = <<>>
        /\ flagcall = <<>>

Init == \E image \in Images, checks \in BOOLEAN : Boot(image, checks)

Spec == Init /\ [][Next]_vars

---------------------------------------------------------------------------
(* Any Emulator: the struct's fields are public, so a caller can hand the  *)
(* handlers any register file, flags word and memory contents.  SpecAny    *)
(* starts from such states as well as from the states main starts from.    *)

\* where the data operands of these states live
DataAddress == <<\h7d00, 0>>

Words ==
    { Zero32, U32(1), U32(5), W(\h7fff, \hffff), W(\h8000, \h0000), W(\hffff, \hffff) }

Imm8s == {1, \h7f, \h80, \hff}

AnyEmulator(code, regs, flags, data, checks) ==
    LET mem == LoadImage(LoadImage(NewMemory(MEMORY_SIZE), code, Index(LOAD_ADDRESS)),
                         data, Index(DataAddress))
    IN  /\ registers = regs
        /\ eflags = flags
        /\ eip = LOAD_ADDRESS
        /\ memory = mem
        /\ stdout = <<>>
        /\ loc = "fetch"
        /\ fatal = "none"
        /\ overflow_checks = checks
        /\ binary = code
        /\ trace = <<>>
        /\ flagcall = <<>>

\* one arithmetic, compare or 32-bit move instruction working on a (in EAX) and
\* b (in ECX and at [EDX])
AluCodes ==
    { <<\h01, ModRMByte(3, ECX, EAX)>>, <<\h01, ModRMByte(0, ECX, EDX)>>,
      <<\h01, ModRMByte(1, ECX, EDX), 4>>, <<\h01, ModRMByte(2, ECX, EDX), 4, 0, 0, 0>>,
      <<\h01, ModRMByte(0, ECX, 5)>> \o Imm32(DataAddress),
      <<\h3b, ModRMByte(3, EAX, ECX)>>, <<\h3b, ModRMByte(0, EAX, EDX)>>,
      <<\h3b, ModRMByte(1, EAX, EDX), \hfc>>,
      <<\h83, ModRMByte(3, 1, EAX), 1>>,
      <<\hff, ModRMByte(3, 2, EAX)>>,
      <<\h89, ModRMByte(3, ECX, EAX)>>, <<\h89, ModRMByte(0, ECX, EDX)>>,
      <<\h8b, ModRMByte(3, EAX, ECX)>>, <<\h8b, ModRMByte(0, EAX, EDX)>>,
      <<\hc7, ModRMByte(3, 0, EAX)>> \o Imm32(W(\h1234, \h5678)),
      <<\hc7, ModRMByte(0, 0, EDX)>> \o Imm32(W(\h1234, \h5678)),
      <<\h8b, ModRMByte(0, EAX, 4), \h24>>,
      <<\h8b, ModRMByte(1, EAX, 4), \h24, 4>>,
      <<\h89, ModRMByte(2, EAX, 4), \h24, 4, 0, 0, 0>> }
    \cup { <<\h3c, i>> : i \in Imm8s \cup {0, 5} }
    \cup { <<\h3d>> \o Imm32(w) : w \in Words }
    \cup { <<\h83, ModRMByte(3, op, EAX), i>> : op \in {0, 5, 7}, i \in Imm8s }
    \cup { <<\h83, ModRMByte(0, op, EDX), i>> : op \in {0, 5, 7}, i \in {1, \hff} }
    \cup { <<\h40 + r>> : r \in 0 .. 7 }
    \cup { <<\hff, ModRMByte(md, op, EDX)>> : md \in {0, 3}, op \in {0, 1} }
    \cup { <<\hb8 + r>> \o Imm32(W(\h1234, \h5678)) : r \in 0 .. 7 }

AluRegisters(a, b) ==
    [r \in 0 .. (REGISTER_COUNT - 1) |->
        CASE r = EAX -> a
          [] r = ECX -> b
          [] r = EDX -> DataAddress
          [] r = EBX -> W(\hcafe, \hbabe)
          [] r = ESP -> <<\h7bf0, 0>>
          [] r = EBP -> <<\h7be0, 0>>
          [] r = ESI -> W(\h0123, \h4567)
          [] r = EDI -> W(\h89ab, \hcdef)]

FlagWords == { Zero32, W(\hffff, \hffff) }

InitAlu ==
    \E code \in AluCodes, a \in Words, b \in Words, flags \in FlagWords, checks \in BOOLEAN :
        AnyEmulator(code, AluRegisters(a, b), flags, Imm32(b) \o Imm32(a), checks)

\* one 8-bit move
ByteCodes ==
    { <<\hb0 + r, i>> : r \in 0 .. 7, i \in {0, \h12, \hff} }
    \cup { <<\h88, ModRMByte(3, op, rm)>> : op \in 0 .. 7, rm \in 0 .. 7 }
    \cup { <<\h8a, ModRMByte(3, op, rm)>> : op \in 0 .. 7, rm \in 0 .. 7 }
    \cup { <<c, ModRMByte(0, op, EDX)>> : c \in {\h88, \h8a}, op \in 0 .. 7 }

ByteRegisters ==
    { [r \in 0 .. (REGISTER_COUNT - 1) |->
          CASE r = EAX -> W(\h1122, \h3344)
            [] r = ECX -> W(\h5566, \h7788)
            [] r = EDX -> DataAddress
            [] r = EBX -> W(\h99aa, \hbbcc)
            [] r = ESP -> <<\h7bf0, 0>>
            [] r = EBP -> <<\h7be0, 0>>
            [] r = ESI -> W(\h0123, \h4567)
            [] r = EDI -> W(\h89ab, \hcdef)],
      [r \in 0 .. (REGISTER_COUNT - 1) |->
          IF r = EDX THEN DataAddress ELSE W(\hffff, \hffff)] }

InitByte ==
    \E code \in ByteCodes, regs \in ByteRegisters, checks \in BOOLEAN :
        AnyEmulator(code, regs, Zero32, <<\h5a, \ha5>>, checks)

\* one conditional jump under every value of the four flags, the other bits of
\* the flags word all clear or all set
JccCodes == { <<op, d>> : op \in JccOpcodes, d \in {\h02, \hfe, \h80} }

JccFlags ==
    { <<c + 64 * z + 128 * sg + 2048 * o + junk * \hf73e, junk * \hffff>> :
        c \in 0 .. 1, z \in 0 .. 1, sg \in 0 .. 1, o \in 0 .. 1, junk \in 0 .. 1 }

InitJcc ==
    \E code \in JccCodes, flags \in JccFlags, checks \in BOOLEAN :
        AnyEmulator(code, AluRegisters(Zero32, Zero32), flags, <<>>, checks)

\* stack instructions and jumps under several stack pointers
StackCodes ==
    { <<\h50 + r, \h58 + q>> : r \in 0 .. 7, q \in 0 .. 7 }
    \cup { <<\h68>> \o Imm32(w) \o <<\h58 + q>> :
             w \in {W(\h1234, \h5678), W(\hffff, \hffff)}, q \in 0 .. 7 }
    \cup { <<\h6a, i, \h58 + q>> : i \in {1, \hff}, q \in {EAX, ESP} }
    \cup { <<\h58 + q>> : q \in {ECX, ESP} }
    \cup { <<\hc3>>, <<\hc9>>, <<\heb, \h10>>, <<\heb, \hf0>> }
    \cup { <<c>> \o Imm32(w) :
             c \in {\he8, \he9},
             w \in {U32(16), W(\hffff, \hfff0), W(\h7fff, \hfffb), W(\h7fff, \hffff),
                    W(\h8000, \h0000)} }

StackPointers ==
    { <<\h7bf0, 0>>, LOAD_ADDRESS, DataAddress, U32(4), U32(3), Zero32,
      W(\h0400, \h0000), W(\h0400, \h0002), W(\hffff, \hfffc) }

StackRegisters(sp) ==
    [r \in 0 .. (REGISTER_COUNT - 1) |->
        CASE r = EAX -> W(\h1234, \h5678)
          [] r = ECX -> W(\hffff, \hffff)
          [] r = EDX -> W(\h8000, \h0000)
          [] r = EBX -> Zero32
          [] r = ESP -> sp
          [] r = EBP -> <<\h7be0, 0>>
          [] r = ESI -> W(\h7fff, \hffff)
          [] r = EDI -> U32(1)]

InitStack ==
    \E code \in StackCodes, sp \in StackPointers, checks \in BOOLEAN :
        AnyEmulator(code, StackRegisters(sp), Zero32,
                    Imm32(W(\h0000, \h7c01)) \o Imm32(W(\hdead, \hbeef)), checks)

\* in and out under several ports
IoRegisters(port, a) ==
    [r \in 0 .. (REGISTER_COUNT - 1) |->
        CASE r = EAX -> a
          [] r = EDX -> port
          [] r = ESP -> <<\h7bf0, 0>>
          [] OTHER -> Zero32]

InitIo ==
    \E code \in {<<\hec>>, <<\hee>>},
       port \in {U32(SERIAL_PORT), W(1, SERIAL_PORT), DataAddress},
       a \in {W(\h1122, \h3341), W(\h1122, \h33c8)}, checks \in BOOLEAN :
        AnyEmulator(code, IoRegisters(port, a), Zero32, <<>>, checks)

\* the first bytes the dispatcher has a handler for (emulator.rs:84-122)
DefinedOpcodes ==
    {\h01, \h3b, \h3c, \h3d} \cup (\h40 .. \h47) \cup (\h50 .. \h5f) \cup {\h68, \h6a}
    \cup (\h70 .. \h79) \cup (\h7c .. \h7f) \cup {\h83} \cup (\h88 .. \h8b)
    \cup (\hb0 .. \hbf) \cup {\hc3, \hc7, \hc9, \he8, \he9, \heb, \hec, \hee, \hff}

\* every first byte without a handler, and the two groups under every reg field
\* without one
UndefinedCodes ==
    { <<c, \h01, \h02>> : c \in (0 .. 255) \ DefinedOpcodes }
    \cup { <<\h83, ModRMByte(md, op, rm), 1, 0, 0, 0, 0>> :
             md \in 0 .. 3, op \in {1, 2, 3, 4, 6}, rm \in {EAX, EDX, 5} }
    \cup { <<\hff, ModRMByte(md, op, rm), 1, 0, 0, 0, 0>> :
             md \in 0 .. 3, op \in 2 .. 7, rm \in {EAX, EDX, 5} }

InitUndefined ==
    \E code \in UndefinedCodes, flags \in FlagWords, checks \in BOOLEAN :
        AnyEmulator(code, AluRegisters(W(\h1234, \h5678), U32(1)), flags,
                    Imm32(W(\hdead, \hbeef)), checks)

\* one instruction with a ModRM under every ModRM byte, followed by bytes that
\* serve as its SIB byte and displacement
ModRMTails ==
    { <<\h04, \h7d, 0, 0, 0>>,               \* 4, 0x7d04
      <<\hfc, \hff, \hff, \hff, \hff>>,      \* -4
      <<0, 0, 0, \h80, 0>>,                  \* 0, 0x80000000
      <<1, 0, 0, 0, 0>> }                    \* 1

ModRMCodes ==
    { <<\h8b, c>> \o tail : c \in 0 .. 255, tail \in ModRMTails }
    \cup { <<op, ModRMByte(md, ECX, rm)>> \o tail :
             op \in {\h01, \h3b, \h88, \h89, \h8a}, md \in 0 .. 2, rm \in {EAX, EDX, 4, 5, ESI},
             tail \in ModRMTails }
    \cup { <<op, ModRMByte(md, 0, rm)>> \o tail :
             op \in {\h83, \hc7, \hff}, md \in 0 .. 2, rm \in {EAX, EDX, 4, 5, ESI},
             tail \in ModRMTails }

ModRMRegisters ==
    [r \in 0 .. (REGISTER_COUNT - 1) |->
        CASE r = EAX -> DataAddress
          [] r = ECX -> W(\h1234, \h5678)
          [] r = EDX -> W(\hffff, \hffff)
          [] r = EBX -> W(\h03ff, \hfffe)
          [] r = ESP -> <<\h7bf0, 0>>
          [] r = EBP -> <<\h7d10, 0>>
          [] r = ESI -> W(\h8000, \h7d00)
          [] r = EDI -> W(\h03ff, \hffff)]

InitModRM ==
    \E code \in ModRMCodes, checks \in BOOLEAN :
        AnyEmulator(code, ModRMRegisters, Zero32,
                    Imm32(W(\h0102, \h0304)) \o Imm32(W(\h0506, \h0708)), checks)

\* an Emulator whose code lies at `at`, as far as the memory reaches
AnyEmulatorAt(at, code, regs, checks) ==
    LET room == IF InBounds(NewMemory(MEMORY_SIZE), at) THEN MEMORY_SIZE - Index(at) ELSE 0
        held == SubSeq(code, 1, IF Len(code) < room THEN Len(code) ELSE room)
    IN  /\ registers = regs
        /\ eflags = Zero32
        /\ eip = at
        /\ memory = LoadImage(NewMemory(MEMORY_SIZE), held,
                              IF room = 0 THEN 0 ELSE Index(at))
        /\ stdout = <<>>
        /\ loc = "fetch"
        /\ fatal = "none"
        /\ overflow_checks = checks
        /\ binary = held
        /\ trace = <<>>
        /\ flagcall = <<>>

\* code at the end of the memory and past it
EdgeCodes ==
    { <<\h40>>, <<\hc9>>, <<\hc3>>, <<\h50>>, <<\h58>>,
      <<\hb8, 1, 0, 0, 0>>, <<\hb0, 1>>, <<\h3c, 1>>, <<\h3d, 1, 0, 0, 0>>,
      <<\h68, 1, 0, 0, 0>>, <<\h6a, 1>>, <<\he8, 0, 0, 0, 0>>, <<\he9, 0, 0, 0, 0>>,
      <<\heb, 0>>, <<\h74, 0>>, <<\h75, 0>>,
      <<\h8b, ModRMByte(0, EAX, 5), 0, \h7d, 0, 0>>, <<\h8b, ModRMByte(1, EAX, EAX), 0>>,
      <<\h83, ModRMByte(3, 0, EAX), 1>>, <<\hc7, ModRMByte(3, 0, EAX), 1, 0, 0, 0>>,
      <<\h88, ModRMByte(3, EAX, ECX)>>, <<\hff, ModRMByte(3, 0, EAX)>> }

EdgeAddresses ==
    { W(\h03ff, \hffff), W(\h03ff, \hfffe), W(\h03ff, \hfffa),
      W(\h0400, \h0000), W(\hffff, \hffff) }

\* the second with EAX and EBP pointing at the last bytes of the memory
EdgeRegisters ==
    { StackRegisters(<<\h7bf0, 0>>),
      [StackRegisters(<<\h7bf0, 0>>) EXCEPT ![EAX] = W(\h03ff, \hfffd),
                                            ![EBP] = W(\h03ff, \hfffe)] }

InitEdge ==
    \E code \in EdgeCodes, at \in EdgeAddresses, regs \in EdgeRegisters, checks \in BOOLEAN :
        AnyEmulatorAt(at, code, regs, checks)

\* a compare followed by a conditional jump over two bytes: x in EAX, y in ECX or
\* in the immediate
CompareJumps == {\h72, \h74, \h76, \h7c, \h7e}

ByteValues == {0, 1, \h7f, \h80, \hff}

\* cmp eax, j + 0x200 with EAX that value, 2 or 0: the bytes after the opcode are
\* those of the jump
CompareJumpOverlaps == { U32(2), Zero32 } \cup { <<\h200 + j, 0>> : j \in CompareJumps }

InitCompareJump ==
    \E j \in CompareJumps, checks \in BOOLEAN :
        \/ \E a \in Words, b \in Words :
              AnyEmulator(<<\h3b, ModRMByte(3, EAX, ECX), j, 2>>, AluRegisters(a, b),
                          Zero32, <<>>, checks)
        \/ \E a \in Words, i \in Imm8s :
              AnyEmulator(<<\h83, ModRMByte(3, 7, EAX), i, j, 2>>, AluRegisters(a, Zero32),
                          Zero32, <<>>, checks)
        \/ \E al \in ByteValues, i \in ByteValues :
              AnyEmulator(<<\h3c, i, j, 2>>, AluRegisters(<<\h3300 + al, \h1122>>, Zero32),
                          Zero32, <<>>, checks)
        \/ \E a \in CompareJumpOverlaps :
              AnyEmulator(<<\h3d, j, 2, 0, 0>>, AluRegisters(a, Zero32),
                          Zero32, <<>>, checks)

InitAny ==
    \/ Init \/ InitAlu \/ InitByte \/ InitJcc \/ InitStack \/ InitIo
    \/ InitUndefined \/ InitModRM \/ InitEdge \/ InitCompareJump

SpecAny == InitAny /\ [][Next]_vars

---------------------------------------------------------------------------
(* Reading the state in the claims.                                        *)

\* a < b as unsigned 32-bit numbers
Below(a, b) == a[2] < b[2] \/ (a[2] = b[2] /\ a[1] < b[1])

\* bit 31
Sign(w) == w[2] >= 2 ^ 15

Carry(f) == f[1] % 2 = 1
Zero(f) == (f[1] \div 64) % 2 = 1
SignF(f) == (f[1] \div 128) % 2 = 1
Overflow(f) == (f[1] \div 2048) % 2 = 1

\* the instruction the last handler ran on: its bytes, as they were before it ran
PreByte(k) ==
    LET a == wrapping_add(pre.eip, U32(k))
    IN  IF InBounds(pre.memory, a) THEN Peek(pre.memory, Index(a)) ELSE 0

PreModRM == [md |-> PreByte(1) \div 64, op |-> (PreByte(1) \div 8) % 8, rm |-> PreByte(1) % 8]

\* the little-endian 32-bit word at an in-bounds address of a memory
WordAt(mem, a) ==
    <<Peek(mem, Index(a)) + 256 * Peek(mem, Index(a) + 1),
      Peek(mem, Index(a) + 2) + 256 * Peek(mem, Index(a) + 3)>>

\* the last handler ran to its end
Ran(name) == last = name /\ fatal = "none"

\* the value of 8-bit register i (AL, CL, DL, BL, AH, CH, DH, BH) in a register file
Reg8(regs, i) == IF i < 4 THEN regs[i][1] % 256 ELSE regs[i - 4][1] \div 256

---------------------------------------------------------------------------
(* C1: whenever update_eflags_sub has been called with result = v1 - v2    *)
(* computed in 64 bits, the flags word has zero = (v1 = v2), carry =       *)
(* (v1 < v2 unsigned), sign = bit 31 of (v1 - v2) mod 2^32 and overflow =  *)
(* (sign(v1) # sign(v2)) and (sign(v1) # sign of the result).              *)

SubCall == flagcall # <<>> /\ flagcall.result = wrapping_sub64(AsU64(flagcall.v1), AsU64(flagcall.v2))

C1_SubFlags ==
    SubCall =>
        LET a == flagcall.v1
            b == flagcall.v2
            d == wrapping_sub(a, b)
        IN  /\ Zero(eflags) = (a = b)
            /\ Carry(eflags) = Below(a, b)
            /\ SignF(eflags) = Sign(d)
            /\ Overflow(eflags) = (Sign(a) # Sign(b) /\ Sign(a) # Sign(d))

C1_Witness ==
    /\ SubCall
    /\ last = "cmp_r32_rm32"
    /\ Below(flagcall.v1, flagcall.v2)
    /\ Carry(eflags) /\ Overflow(eflags) /\ SignF(eflags) /\ ~Zero(eflags)

---------------------------------------------------------------------------
(* C2: after an 8-bit move of a byte v into a high-byte register r+4       *)
(* (mov r8,imm8 0xB4..0xB7, mov r/m8,r8 or mov r8,r/m8 with a register     *)
(* destination), register r holds v in bits 8-15 and its bits 0-7 and      *)
(* 16-31 are as before the move.                                           *)

\* the destination's parent and the byte moved, when the last handler was such a move
HighByteMove ==
    IF Ran("mov_r8_imm8") /\ PreByte(0) >= \hb4
    THEN {[parent |-> PreByte(0) - \hb4, v |-> PreByte(1)]}
    ELSE IF Ran("mov_rm8_r8") /\ PreModRM.md = 3 /\ PreModRM.rm >= 4
    THEN {[parent |-> PreModRM.rm - 4, v |-> Reg8(pre.registers, PreModRM.op)]}
    ELSE IF Ran("mov_r8_rm8") /\ PreModRM.md = 3 /\ PreModRM.op >= 4
    THEN {[parent |-> PreModRM.op - 4, v |-> Reg8(pre.registers, PreModRM.rm)]}
    ELSE IF Ran("mov_r8_rm8") /\ PreModRM.md = 0 /\ PreModRM.rm = EDX /\ PreModRM.op >= 4
    THEN {[parent |-> PreModRM.op - 4, v |-> Peek(pre.memory, Index(pre.registers[EDX]))]}
    ELSE {}

C2_HighByteMove ==
    \A m \in HighByteMove :
        registers[m.parent] =
            <<(pre.registers[m.parent][1] % 256) + 256 * m.v, pre.registers[m.parent][2]>>

---------------------------------------------------------------------------
(* C3: a call rel32 at address A with stack pointer S, to a subroutine     *)
(* that runs push ebp / mov ebp,esp, a body, leave and ret: after the ret  *)
(* the program counter is A+5, ESP is S and EBP is its value before the    *)
(* call.  The original claim asks of the body that it is stack-balanced    *)
(* and does not change EBP; the amended claim also that it leaves the      *)
(* eight bytes at S-8..S-1 (the saved EBP and the return address) as the   *)
(* call and the prologue wrote them.                                       *)

\* the first ret of a run whose second instruction was a call to such a subroutine
FirstReturn ==
    /\ Len(trace) >= 6
    /\ Ran("ret")
    /\ \A i \in 1 .. (Len(trace) - 1) : trace[i].name # "ret"
    /\ trace[2].name = "call_rel32"
    /\ trace[3].name = "push_r32" /\ Peek(trace[3].before.memory, Index(trace[3].before.eip)) = \h55
    /\ trace[4].name = "mov_rm32_r32"
    /\ Peek(trace[4].before.memory, Index(trace[4].before.eip) + 1) = ModRMByte(3, ESP, EBP)
    /\ trace[Len(trace) - 1].name = "leave"

AtCall == trace[2].before
AfterPrologue == trace[5].before
BeforeLeave == trace[Len(trace) - 1].before

BodyBalanced ==
    /\ BeforeLeave.registers[ESP] = AfterPrologue.registers[ESP]
    /\ BeforeLeave.registers[EBP] = AfterPrologue.registers[EBP]

BodyKeepsFrame ==
    \A k \in 1 .. 8 :
        Peek(BeforeLeave.memory, Index(AtCall.registers[ESP]) - k)
            = Peek(AfterPrologue.memory, Index(AtCall.registers[ESP]) - k)

ReturnedToCaller ==
    /\ eip = wrapping_add(AtCall.eip, U32(5))
    /\ registers[ESP] = AtCall.registers[ESP]
    /\ registers[EBP] = AtCall.registers[EBP]

\* the original claim
C3_CallReturn_AnyBalancedBody == FirstReturn /\ BodyBalanced => ReturnedToCaller

\* the amended claim
C3_CallReturn == FirstReturn /\ BodyBalanced /\ BodyKeepsFrame => ReturnedToCaller

C3_Witness ==
    /\ FirstReturn /\ BodyBalanced /\ BodyKeepsFrame
    /\ Len(trace) = 8
    /\ trace[5].name = "push_r32"
    /\ AtCall.registers[EBP] = FrameValue
    /\ ReturnedToCaller

---------------------------------------------------------------------------
(* C4: a push of v (push r32, push imm32) with stack pointer S, followed   *)
(* at once by a pop r32: the push sets ESP to S-4 and stores v             *)
(* little-endian at S-4, the pop does not modify memory and leaves the     *)
(* popped register equal to v.  The original claim has ESP equal to S      *)
(* after every pop; the amended claim has it for every popped register     *)
(* but ESP itself, which the pop leaves equal to v.                        *)

PushThenPop ==
    /\ Len(trace) >= 2
    /\ Ran("pop_r32")
    /\ trace[Len(trace) - 1].name \in {"push_r32", "push_imm32"}

BeforePush == trace[Len(trace) - 1].before

PushOpcode == Peek(BeforePush.memory, Index(BeforePush.eip))

Pushed ==
    IF trace[Len(trace) - 1].name = "push_r32"
    THEN BeforePush.registers[PushOpcode - \h50]
    ELSE WordAt(BeforePush.memory, wrapping_add(BeforePush.eip, U32(1)))

Popped == PreByte(0) - \h58

PushStores ==
    /\ pre.registers[ESP] = wrapping_sub(BeforePush.registers[ESP], U32(4))
    /\ WordAt(pre.memory, pre.registers[ESP]) = Pushed
    /\ memory = pre.memory
    /\ registers[Popped] = Pushed

\* the original claim
C4_PushPop_AnyRegister ==
    PushThenPop => PushStores /\ registers[ESP] = BeforePush.registers[ESP]

\* the amended claim
C4_PushPop ==
    PushThenPop =>
        /\ PushStores
        /\ Popped # ESP => registers[ESP] = BeforePush.registers[ESP]

C4_Witness ==
    /\ PushThenPop
    /\ PushOpcode = \h50 + EAX
    /\ Popped = ECX
    /\ registers[ECX] = W(\h1234, \h5678)
    /\ BeforePush.registers[ECX] # registers[ECX]
    /\ registers[ESP] = <<\h7bf0, 0>>

---------------------------------------------------------------------------
(* C5: a conditional short jump is taken exactly when its condition holds  *)
(* of the flags word: jo (0x70) overflow, jc (0x72) carry, jz (0x74) zero, *)
(* jbe (0x76) carry or zero, js (0x78) sign, jl (0x7C) sign xor overflow,  *)
(* jle (0x7E) zero or (sign xor overflow); the jump with the next opcode   *)
(* is taken exactly when its partner is not.                               *)

JccNames ==
    {"jo", "jno", "jc", "jnc", "jz", "jnz", "jbe", "jnbe", "js", "jns", "jl", "jnl",
     "jle", "jnle"}

\* the condition of the jump with an even opcode
Condition(opcode, f) ==
    CASE opcode = \h70 -> Overflow(f)
      [] opcode = \h72 -> Carry(f)
      [] opcode = \h74 -> Zero(f)
      [] opcode = \h76 -> Carry(f) \/ Zero(f)
      [] opcode = \h78 -> SignF(f)
      [] opcode = \h7c -> SignF(f) # Overflow(f)
      [] opcode = \h7e -> Zero(f) \/ (SignF(f) # Overflow(f))

ShouldJump(opcode, f) ==
    IF opcode % 2 = 0 THEN Condition(opcode, f) ELSE ~Condition(opcode - 1, f)

JumpTarget == wrapping_add(wrapping_add(pre.eip, U32(2)), SignExtend8(PreByte(1)))
FallThrough == wrapping_add(pre.eip, U32(2))

C5_ConditionalJumps ==
    \A name \in JccNames :
        Ran(name) =>
            eip = IF ShouldJump(PreByte(0), pre.eflags) THEN JumpTarget ELSE FallThrough

\* sign = 1, overflow = 0, zero = 0, carry = 0: jl has jumped
C5_Witness ==
    /\ Ran("jl")
    /\ PreByte(0) = \h7c
    /\ SignF(pre.eflags) /\ ~Overflow(pre.eflags) /\ ~Zero(pre.eflags) /\ ~Carry(pre.eflags)
    /\ eip = JumpTarget
    /\ eip # FallThrough

---------------------------------------------------------------------------
(* C6: a compare instruction (0x3B, 0x3C, 0x3D, 0x83 /7) changes no        *)
(* general register and no memory byte; and after mov eax,5; mov ebx,3;    *)
(* cmp eax,ebx from the bootstrapped state carry, zero, sign and overflow  *)
(* are all clear, EAX is 5 and EBX is 3.                                   *)

LastIsCompare ==
    \/ last \in {"cmp_r32_rm32", "cmp_al_imm8", "cmp_eax_imm32"}
    \/ last = "code_83" /\ PreModRM.op = 7

AfterCompareImage == binary = CompareImage /\ Len(trace) = 3

C6_CompareFrame ==
    /\ LastIsCompare => registers = pre.registers /\ memory = pre.memory /\ stdout = <<>>
    /\ AfterCompareImage =>
          /\ Ran("cmp_r32_rm32")
          /\ ~Carry(eflags) /\ ~Zero(eflags) /\ ~SignF(eflags) /\ ~Overflow(eflags)
          /\ registers[EAX] = U32(5)
          /\ registers[EBX] = U32(3)

C6_Witness ==
    /\ AfterCompareImage
    /\ Ran("cmp_r32_rm32")
    /\ eflags = Zero32
    /\ registers[EAX] = U32(5)
    /\ flagcall # <<>>

---------------------------------------------------------------------------
(* C7: after the handler of an instruction that is no control transfer,    *)
(* the program counter has advanced by the instruction's encoded length:   *)
(* the opcode byte, the ModRM byte with its SIB byte and displacement when *)
(* the instruction has one, and its immediate.                             *)

ControlTransfers == JccNames \cup {"near_jump", "short_jump", "call_rel32", "ret"}

HasModRM(opcode) == opcode \in {\h01, \h3b, \h83, \h88, \h89, \h8a, \h8b, \hc7, \hff}

ModRMLength(m) ==
    1 + (IF m.md # 3 /\ m.rm = 4 THEN 1 ELSE 0)
      + (IF m.md = 2 \/ (m.md = 0 /\ m.rm = 5) THEN 4 ELSE IF m.md = 1 THEN 1 ELSE 0)

ImmediateLength(opcode) ==
    CASE opcode \in {\h3c, \h6a, \h83} \cup (\hb0 .. \hb7) -> 1
      [] opcode \in {\h3d, \h68, \hc7} \cup (\hb8 .. \hbf) -> 4
      [] OTHER -> 0

EncodedLength ==
    1 + (IF HasModRM(PreByte(0)) THEN ModRMLength(PreModRM) ELSE 0)
      + ImmediateLength(PreByte(0))

C7_AdvancesByLength ==
    (trace # <<>> /\ fatal = "none" /\ last \notin ControlTransfers)
        => eip = wrapping_add(pre.eip, U32(EncodedLength))

---------------------------------------------------------------------------
(* C8: in the bootstrapped system a ret sets the program counter to the    *)
(* little-endian word at ESP.  The original claim: a ret executed while    *)
(* ESP holds its initial value pops zero, sets the program counter to 0    *)
(* and the loop exits.  The amended claim: a ret pops the word at ESP, the *)
(* loop exits after it when that word is 0, and while ESP holds its        *)
(* initial value (the load address) the word popped is the first four      *)
(* bytes of the image as long as the program has not overwritten them.     *)

InitialStackPointer == LOAD_ADDRESS

ImageByte(k) == IF k <= Len(binary) THEN binary[k] ELSE 0

ImageWord == <<ImageByte(1) + 256 * ImageByte(2), ImageByte(3) + 256 * ImageByte(4)>>

ImageHeadIntact ==
    \A k \in 1 .. 4 : Peek(pre.memory, Index(LOAD_ADDRESS) + k - 1) = ImageByte(k)

\* the original claim
C8_RetAtInitialStackPointer ==
    (last = "ret" /\ pre.registers[ESP] = InitialStackPointer) =>
        /\ fatal = "none"
        /\ WordAt(pre.memory, pre.registers[ESP]) = Zero32
        /\ eip = Zero32
        /\ loc \in {"check", "done"}

\* the amended claim
C8_Ret ==
    Ran("ret") =>
        /\ eip = WordAt(pre.memory, pre.registers[ESP])
        /\ registers[ESP] = wrapping_add(pre.registers[ESP], U32(4))
        /\ WordAt(pre.memory, pre.registers[ESP]) = Zero32 => loc \in {"check", "done"}
        /\ WordAt(pre.memory, pre.registers[ESP]) # Zero32 => loc \in {"check", "fetch"}
        /\ (pre.registers[ESP] = InitialStackPointer /\ ImageHeadIntact) => eip = ImageWord

\* a ret above the image has popped zero and the loop has exited
C8_Witness ==
    /\ Ran("ret")
    /\ pre.registers[ESP] = <<\h8000, 0>>
    /\ WordAt(pre.memory, pre.registers[ESP]) = Zero32
    /\ eip = Zero32
    /\ loc = "done"

---------------------------------------------------------------------------
(* C9: the loop runs one instruction at a time, fetched at the program     *)
(* counter; after an instruction it goes on to the next fetch when the     *)
(* program counter is not 0 and exits when it is 0; it exits in no other   *)
(* way, and once it has exited (or panicked) nothing runs any more.        *)

C9_RunLoop ==
    [][ /\ loc \in {"fetch", "check"}
        /\ loc = "fetch" =>
              /\ loc' \in {"check", "fatal"}
              /\ trace' = Append(trace, [name |-> last', before |-> Snapshot])
              /\ (loc' = "fatal") = (fatal' # "none")
        /\ loc = "check" =>
              /\ loc' = IF eip = Zero32 THEN "done" ELSE "fetch"
              /\ UNCHANGED <<registers, eflags, eip, memory, stdout, trace>>
        /\ loc' = "done" => loc = "check" /\ eip = Zero32 /\ fatal = "none"
      ]_vars

\* the loop has exited after several instructions
C9_Witness ==
    /\ loc = "done"
    /\ eip = Zero32
    /\ Len(trace) >= 3
    /\ last = "near_jump"

---------------------------------------------------------------------------
(* C10: add, inc and dec (0x01, 0x83 /0, 0x40..0x47, 0xFF /0, 0xFF /1)     *)
(* leave the flags word as it was, and only sub r/m32,imm8 (0x83 /5) and   *)
(* the compare instructions change it.                                     *)

LastIsAddIncDec ==
    \/ last \in {"add_rm32_r32", "inc_r32"}
    \/ last = "code_83" /\ PreModRM.op = 0
    \/ last = "code_ff" /\ PreModRM.op \in {0, 1}

LastWritesFlags ==
    \/ LastIsCompare
    \/ last = "code_83" /\ PreModRM.op = 5

C10_FlagsFrame ==
    /\ LastIsAddIncDec => eflags = pre.eflags
    /\ eflags # pre.eflags => LastWritesFlags

\* 0xFFFFFFFF + 1 has wrapped to 0 and the flags are still all clear
C10_Witness ==
    /\ Ran("add_rm32_r32")
    /\ pre.registers[EAX] = W(\hffff, \hffff)
    /\ pre.registers[ECX] = U32(1)
    /\ registers[EAX] = Zero32
    /\ pre.eflags = Zero32
    /\ eflags = Zero32

---------------------------------------------------------------------------
(* C11: an instruction whose first byte has no handler, a 0x83 instruction *)
(* whose reg field is not 0, 5 or 7 and a 0xFF instruction whose reg field *)
(* is not 0 or 1 end the run in the fatal state, with every register, the  *)
(* flags word and every memory byte as they were before it.                *)

UndefinedFirstByte ==
    trace # <<>> /\ InBounds(pre.memory, pre.eip) /\ PreByte(0) \notin DefinedOpcodes

UndefinedGroup ==
    /\ trace # <<>>
    /\ InBounds(pre.memory, pre.eip)
    /\ InBounds(pre.memory, wrapping_add(pre.eip, U32(1)))
    /\ \/ PreByte(0) = \h83 /\ PreModRM.op \notin {0, 5, 7}
       \/ PreByte(0) = \hff /\ PreModRM.op \notin {0, 1}

C11_UndefinedIsFatal ==
    /\ UndefinedFirstByte =>
          last = "unimplemented" /\ fatal = "unimplemented" /\ eip = pre.eip
    /\ UndefinedGroup =>
          last \in {"code_83", "code_ff"} /\ fatal \in {"unimplemented", "index"}
    /\ UndefinedFirstByte \/ UndefinedGroup =>
          /\ loc = "fatal"
          /\ registers = pre.registers
          /\ eflags = pre.eflags
          /\ memory = pre.memory

\* 0xFF /6 (a push r/m32 on the hardware) on a memory operand has ended the run
C11_Witness ==
    /\ UndefinedGroup
    /\ last = "code_ff"
    /\ PreModRM = [md |-> 0, op |-> 6, rm |-> EAX]
    /\ fatal = "unimplemented"
    /\ loc = "fatal"
    /\ eflags = W(\hffff, \hffff)

---------------------------------------------------------------------------
(* C12: an instruction whose ModRM names a memory operand with rm = 4 (the *)
(* SIB escape, modes 0, 1 and 2) ends the run in the fatal state when the  *)
(* operand's address is computed, after the ModRM byte, the SIB byte and   *)
(* the displacement have been consumed, with registers, flags word and     *)
(* memory as they were; calc_memory_address on a mode-3 descriptor is      *)
(* fatal as well.                                                          *)

\* the last instruction has a ModRM (with a defined reg field where the opcode is a
\* group) and all its bytes lie in the memory
LastHasModRM ==
    /\ trace # <<>>
    /\ InBounds(pre.memory, wrapping_add(pre.eip, U32(11)))
    /\ HasModRM(PreByte(0))
    /\ PreByte(0) = \h83 => PreModRM.op \in {0, 5, 7}
    /\ PreByte(0) = \hff => PreModRM.op \in {0, 1}

SibOperand == LastHasModRM /\ PreModRM.md # 3 /\ PreModRM.rm = 4

C12_SibIsFatal ==
    /\ SibOperand =>
          /\ fatal = "unimplemented"
          /\ loc = "fatal"
          /\ eip = wrapping_add(pre.eip, U32(1 + ModRMLength(PreModRM)
                                             + (IF PreByte(0) = \hc7 THEN 4 ELSE 0)))
          /\ registers = pre.registers
          /\ eflags = pre.eflags
          /\ memory = pre.memory
    /\ \A op \in 0 .. 7, rm \in 0 .. 7 :
          LET address == calc_memory_address(Cur, [md |-> 3, op |-> op, rm |-> rm,
                                                   sib |-> 0, disp |-> Zero32])
          IN  address.s.fatal = "unimplemented"

\* mov [sib + disp32], ecx has consumed its seven bytes and ended the run
C12_Witness ==
    /\ SibOperand
    /\ last = "mov_rm32_r32"
    /\ PreModRM.md = 2
    /\ fatal = "unimplemented"
    /\ eip = wrapping_add(pre.eip, U32(7))

---------------------------------------------------------------------------
(* C13: an instruction fetch, a ModRM operand access or a stack push or    *)
(* pop one of whose bytes has an address at or past the size of the memory *)
(* ends the run in the fatal state; the memory keeps its size and has no   *)
(* byte outside it, and differs from the memory before the instruction at  *)
(* most in the bytes of the access that lie inside it.                     *)

\* an address at or past the size of the memory (a multiple of 2^16)
Outside(a) == a[2] >= MEMORY_SIZE \div B16

\* the w bytes at a do not all lie in the memory
AnyOutside(a, w) == Outside(a) \/ Outside(wrapping_add(a, U32(w - 1)))

\* the address of the last instruction's memory operand, from its ModRM byte, the
\* bytes after it and the registers before it ran
Disp8 == SignExtend8(PreByte(2))
Disp32 == <<PreByte(2) + 256 * PreByte(3), PreByte(4) + 256 * PreByte(5)>>

MemoryOperand == LastHasModRM /\ PreModRM.md # 3 /\ PreModRM.rm # 4

OperandAddress ==
    CASE PreModRM.md = 0 /\ PreModRM.rm = 5 -> Disp32
      [] PreModRM.md = 0 /\ PreModRM.rm # 5 -> pre.registers[PreModRM.rm]
      [] PreModRM.md = 1 -> wrapping_add(pre.registers[PreModRM.rm], Disp8)
      [] PreModRM.md = 2 -> wrapping_add(pre.registers[PreModRM.rm], Disp32)
      [] OTHER -> Zero32

OperandWidth == IF PreByte(0) \in {\h88, \h8a} THEN 1 ELSE 4

\* the address the last instruction pushes to or pops from
IsPush == last \in {"push_r32", "push_imm32", "push_imm8", "call_rel32"}
IsPop == last \in {"pop_r32", "ret", "leave"}

StackAddress ==
    IF IsPush THEN wrapping_sub(pre.registers[ESP], U32(4))
    ELSE IF last = "leave" THEN pre.registers[EBP]
    ELSE pre.registers[ESP]

StackAccess ==
    trace # <<>> /\ InBounds(pre.memory, wrapping_add(pre.eip, U32(4))) /\ (IsPush \/ IsPop)

\* the memory differs from the one before the instruction within the w bytes at a only
ChangedWithin(a, w) ==
    \A i \in DOMAIN memory.bytes \cup DOMAIN pre.memory.bytes :
        Peek(memory, i) # Peek(pre.memory, i) =>
            ~Outside(a) /\ i >= Index(a) /\ i < Index(a) + w

C13_OutOfBoundsIsFatal ==
    /\ memory.len = MEMORY_SIZE
    /\ \A i \in DOMAIN memory.bytes : i >= 0 /\ i < MEMORY_SIZE
    /\ (trace # <<>> /\ Outside(pre.eip)) =>
          /\ last = "instruction" /\ fatal = "index" /\ loc = "fatal"
          /\ eip = pre.eip /\ registers = pre.registers /\ eflags = pre.eflags
          /\ memory = pre.memory
    /\ (MemoryOperand /\ AnyOutside(OperandAddress, OperandWidth)) =>
          /\ fatal = "index" /\ loc = "fatal"
          /\ registers = pre.registers /\ eflags = pre.eflags
          /\ ChangedWithin(OperandAddress, OperandWidth)
    /\ (StackAccess /\ AnyOutside(StackAddress, 4)) =>
          /\ fatal \in {"index", "overflow"} /\ loc = "fatal"
          /\ ChangedWithin(StackAddress, 4)

\* a push two bytes short of the end of the memory has written two bytes and ended the run
C13_Witness ==
    /\ StackAccess
    /\ last = "push_r32"
    /\ StackAddress = W(\h03ff, \hfffe)
    /\ fatal = "index"
    /\ Peek(memory, MEMORY_SIZE - 2) = \h78
    /\ Peek(memory, MEMORY_SIZE - 1) = \h56

---------------------------------------------------------------------------
(* C14: the address of a memory operand is the 32-bit displacement alone   *)
(* in mode 0 with rm = 5, the register rm in mode 0 otherwise, the         *)
(* register rm plus the sign-extended 8-bit displacement in mode 1 and     *)
(* plus the 32-bit displacement in mode 2, modulo 2^32: a load reads the   *)
(* bytes at that address, a store writes them and no others.               *)

OperandInside == MemoryOperand /\ ~AnyOutside(OperandAddress, OperandWidth)

C14_EffectiveAddress ==
    /\ OperandInside => fatal = "none" /\ ChangedWithin(OperandAddress, OperandWidth)
    /\ (OperandInside /\ last = "mov_r32_rm32") =>
          registers[PreModRM.op] = WordAt(pre.memory, OperandAddress)
    /\ (OperandInside /\ last = "mov_rm32_r32") =>
          WordAt(memory, OperandAddress) = pre.registers[PreModRM.op]
    /\ (OperandInside /\ last = "mov_rm32_imm32") =>
          LET at == wrapping_add(pre.eip, U32(1 + ModRMLength(PreModRM)))
          IN  WordAt(memory, OperandAddress) = WordAt(pre.memory, at)
    /\ (OperandInside /\ last = "add_rm32_r32") =>
          WordAt(memory, OperandAddress) =
              wrapping_add(WordAt(pre.memory, OperandAddress), pre.registers[PreModRM.op])

\* mov ebx, [esi + 0x80000000] with ESI = 0x80007d00 has loaded the word at 0x7d00
C14_Witness ==
    /\ OperandInside
    /\ last = "mov_r32_rm32"
    /\ PreModRM = [md |-> 2, op |-> EBX, rm |-> ESI]
    /\ pre.registers[ESI] = W(\h8000, \h7d00)
    /\ Disp32 = W(\h8000, \h0000)
    /\ OperandAddress = DataAddress
    /\ registers[EBX] = W(\h0102, \h0304)

---------------------------------------------------------------------------
(* C15: a ModRM byte c decodes to mode = bits 7-6, reg = bits 5-3 and      *)
(* rm = bits 2-0, and parse_modrm advances the program counter by 1, plus  *)
(* 1 when mode is not 3 and rm = 4, plus 4 when mode = 2 or mode = 0 and   *)
(* rm = 5, plus 1 when mode = 1; a register-direct byte names the          *)
(* registers reg and rm and takes one byte.  Seen on the instructions that *)
(* consist of an opcode byte and a ModRM: mov r32,r/m32 under every c.     *)

\* the last instruction is an opcode byte and a ModRM, with no immediate
OpcodeAndModRM ==
    LastHasModRM /\ PreByte(0) \in {\h01, \h3b, \h88, \h89, \h8a, \h8b, \hff}

OnlyRegisterChanged(r) ==
    \A q \in 0 .. (REGISTER_COUNT - 1) : q # r => registers[q] = pre.registers[q]

C15_ModRMDecode ==
    /\ OpcodeAndModRM => eip = wrapping_add(pre.eip, U32(1 + ModRMLength(PreModRM)))
    /\ (OpcodeAndModRM /\ last = "mov_r32_rm32" /\ PreModRM.md = 3) =>
          /\ fatal = "none"
          /\ eip = wrapping_add(pre.eip, U32(2))
          /\ registers[PreModRM.op] = pre.registers[PreModRM.rm]
          /\ OnlyRegisterChanged(PreModRM.op)
          /\ memory = pre.memory
    /\ (OpcodeAndModRM /\ last = "mov_r32_rm32" /\ PreModRM.md # 3 /\ fatal = "none") =>
          /\ registers[PreModRM.op] = WordAt(pre.memory, OperandAddress)
          /\ OnlyRegisterChanged(PreModRM.op)

\* 8B EC (mov ebp, esp) has copied ESP to EBP and taken two bytes
C15_Witness ==
    /\ OpcodeAndModRM
    /\ last = "mov_r32_rm32"
    /\ PreByte(1) = \hec
    /\ pre.registers[EBP] = <<\h7d10, 0>>
    /\ registers[EBP] = <<\h7bf0, 0>>
    /\ eip = wrapping_add(pre.eip, U32(2))

---------------------------------------------------------------------------
(* C16: a control transfer whose bytes lie in the memory never ends the    *)
(* run on an arithmetic overflow and computes its target modulo 2^32:      *)
(* a short jump and a taken conditional jump go to PC + 2 + the            *)
(* sign-extended disp8, an untaken conditional jump to PC + 2, a near jump *)
(* to PC + 5 + disp32, and a call rel32 with room on the stack pushes      *)
(* PC + 5 and goes to PC + 5 + disp32.                                     *)

RelativeTransfer ==
    /\ trace # <<>>
    /\ InBounds(pre.memory, wrapping_add(pre.eip, U32(4)))
    /\ last \in JccNames \cup {"short_jump", "near_jump", "call_rel32"}

Rel32 == <<PreByte(1) + 256 * PreByte(2), PreByte(3) + 256 * PreByte(4)>>

NearTarget == wrapping_add(wrapping_add(pre.eip, U32(5)), Rel32)

\* the four bytes below the stack pointer lie in the memory
RoomOnStack ==
    ~Below(pre.registers[ESP], U32(4)) /\ ~AnyOutside(wrapping_sub(pre.registers[ESP], U32(4)), 4)

C16_TransfersWrap ==
    RelativeTransfer =>
        /\ (last # "call_rel32" \/ RoomOnStack) => fatal # "overflow"
        /\ last = "short_jump" => fatal = "none" /\ eip = JumpTarget
        /\ last \in JccNames =>
              /\ fatal = "none"
              /\ eip = IF ShouldJump(PreByte(0), pre.eflags) THEN JumpTarget ELSE FallThrough
        /\ last = "near_jump" => fatal = "none" /\ eip = NearTarget
        /\ (last = "call_rel32" /\ RoomOnStack) =>
              /\ fatal = "none"
              /\ eip = NearTarget
              /\ registers[ESP] = wrapping_sub(pre.registers[ESP], U32(4))
              /\ WordAt(memory, registers[ESP]) = wrapping_add(pre.eip, U32(5))

---------------------------------------------------------------------------
(* C17: the arithmetic instructions never end the run when their operand   *)
(* is a register or lies in the memory, and store the result modulo 2^32:  *)
(* add r/m32,r32 stores rm + r, add r/m32,imm8 rm + the sign-extended      *)
(* imm8, sub r/m32,imm8 rm - the sign-extended imm8, inc x + 1             *)
(* (0xFFFFFFFF becomes 0) and dec x - 1 (0 becomes 0xFFFFFFFF).            *)

\* the last instruction's r/m32 operand is a register or lies in the memory
OperandReady == LastHasModRM /\ (PreModRM.md = 3 \/ OperandInside)

\* the value of that operand in a register file and memory
Operand(regs, mem) ==
    IF PreModRM.md = 3 THEN regs[PreModRM.rm] ELSE WordAt(mem, OperandAddress)

\* the immediate byte after the ModRM, sign-extended
Imm8AfterModRM == SignExtend8(PreByte(1 + ModRMLength(PreModRM)))

ArithmeticResult ==
    CASE last = "add_rm32_r32" ->
            wrapping_add(Operand(pre.registers, pre.memory), pre.registers[PreModRM.op])
      [] last = "code_83" /\ PreModRM.op = 0 ->
            wrapping_add(Operand(pre.registers, pre.memory), Imm8AfterModRM)
      [] last = "code_83" /\ PreModRM.op = 5 ->
            wrapping_sub(Operand(pre.registers, pre.memory), Imm8AfterModRM)
      [] last = "code_ff" /\ PreModRM.op = 0 ->
            wrapping_add(Operand(pre.registers, pre.memory), U32(1))
      [] last = "code_ff" /\ PreModRM.op = 1 ->
            wrapping_sub(Operand(pre.registers, pre.memory), U32(1))

LastIsArithmetic ==
    \/ last = "add_rm32_r32"
    \/ last = "code_83" /\ PreModRM.op \in {0, 5}
    \/ last = "code_ff" /\ PreModRM.op \in {0, 1}

C17_ArithmeticWraps ==
    /\ (OperandReady /\ LastIsArithmetic) =>
          fatal = "none" /\ Operand(registers, memory) = ArithmeticResult
    /\ (trace # <<>> /\ last = "inc_r32") =>
          /\ fatal = "none"
          /\ registers[PreByte(0) - \h40] = wrapping_add(pre.registers[PreByte(0) - \h40], U32(1))
    /\ (trace # <<>> /\ (LastIsArithmetic \/ last = "inc_r32")) => fatal # "overflow"

\* dec dword [edx] has taken the word at [edx] from 0 to 0xFFFFFFFF
C17_Witness ==
    /\ OperandReady
    /\ last = "code_ff"
    /\ PreModRM = [md |-> 0, op |-> 1, rm |-> EDX]
    /\ overflow_checks
    /\ WordAt(pre.memory, DataAddress) = Zero32
    /\ WordAt(memory, DataAddress) = W(\hffff, \hffff)
    /\ fatal = "none"

---------------------------------------------------------------------------
(* C18: an 8-bit read of register index r+4 (AH, CH, DH, BH) returns bits  *)
(* 8-15 of the parent register r, and an 8-bit read of index r < 4 its     *)
(* bits 0-7: the byte that mov r/m8,r8 stores (in memory or in a low-byte  *)
(* register) is that byte of its source, and so is the byte that           *)
(* mov r8,r/m8 loads into a low-byte register from a register source.      *)

\* the source register and the byte moved, when the last instruction was an 8-bit
\* move from a register that stored its byte in memory or in a low-byte register
ByteRead ==
    IF Ran("mov_rm8_r8") /\ MemoryOperand
    THEN {[source |-> PreModRM.op, moved |-> Peek(memory, Index(OperandAddress))]}
    ELSE IF Ran("mov_rm8_r8") /\ PreModRM.md = 3 /\ PreModRM.rm < 4
    THEN {[source |-> PreModRM.op, moved |-> registers[PreModRM.rm][1] % 256]}
    ELSE IF Ran("mov_r8_rm8") /\ PreModRM.md = 3 /\ PreModRM.op < 4
    THEN {[source |-> PreModRM.rm, moved |-> registers[PreModRM.op][1] % 256]}
    ELSE {}

C18_ByteRegisterRead ==
    \A m \in ByteRead : m.moved = Reg8(pre.registers, m.source)

---------------------------------------------------------------------------
(* C19: an 8-bit write to register index i (AL, CL, DL, BL, AH, CH, DH,    *)
(* BH) changes at most the parent register i mod 4: ESP, EBP, ESI, EDI and *)
(* the three other parents are as before, and after a run of 8-bit moves   *)
(* the stack pointer is what it was before the run.                        *)

ByteMoves == {"mov_r8_imm8", "mov_rm8_r8", "mov_r8_rm8"}

\* the 8-bit register the last instruction wrote, when it wrote one
ByteWritten ==
    IF Ran("mov_r8_imm8") THEN {PreByte(0) - \hb0}
    ELSE IF Ran("mov_rm8_r8") /\ PreModRM.md = 3 THEN {PreModRM.rm}
    ELSE IF Ran("mov_r8_rm8") THEN {PreModRM.op}
    ELSE IF Ran("in_al_dx") THEN {AL}
    ELSE {}

C19_ByteWriteFrame ==
    /\ \A i \in ByteWritten : OnlyRegisterChanged(i % 4)
    /\ (trace # <<>> /\ fatal = "none" /\ \A k \in 1 .. Len(trace) : trace[k].name \in ByteMoves)
          => registers[ESP] = trace[1].before.registers[ESP]

---------------------------------------------------------------------------
(* C20: cmp EAX,imm32 (0x3D) sets the flags by the subtract-flags rule     *)
(* with a = EAX and b = the little-endian word in the four bytes after the *)
(* opcode byte: zero = (a = b), carry = (a < b unsigned), sign = bit 31 of *)
(* a - b, overflow = (sign(a) # sign(b)) and (sign(a) # sign(a - b)).      *)

ImmediateAfterOpcode == <<PreByte(1) + 256 * PreByte(2), PreByte(3) + 256 * PreByte(4)>>

C20_CmpEaxImm32 ==
    Ran("cmp_eax_imm32") =>
        LET a == pre.registers[EAX]
            b == ImmediateAfterOpcode
            d == wrapping_sub(a, b)
        IN  /\ Zero(eflags) = (a = b)
            /\ Carry(eflags) = Below(a, b)
            /\ SignF(eflags) = Sign(d)
            /\ Overflow(eflags) = (Sign(a) # Sign(b) /\ Sign(a) # Sign(d))

---------------------------------------------------------------------------
(* C21: a conditional jump that runs right after a compare of x with y at  *)
(* width w (32 bits for cmp r32,r/m32, cmp eax,imm32 and cmp r/m32,imm8    *)
(* with the imm8 sign-extended; 8 bits for cmp al,imm8) decides as the     *)
(* comparison of x with y at that width: jl is taken exactly when x < y    *)
(* as signed w-bit integers, jle when x <= y signed, jbe when x <= y       *)
(* unsigned, jc when x < y unsigned, jz when x = y.                        *)

\* the instruction before the last one, and its bytes as they were before it ran
Compared == trace[Len(trace) - 1]

ComparedByte(k) ==
    LET a == wrapping_add(Compared.before.eip, U32(k))
    IN  IF InBounds(Compared.before.memory, a)
        THEN Peek(Compared.before.memory, Index(a)) ELSE 0

ComparedModRM ==
    [md |-> ComparedByte(1) \div 64, op |-> (ComparedByte(1) \div 8) % 8,
     rm |-> ComparedByte(1) % 8]

\* its r/m32 operand
ComparedAddress ==
    LET m == ComparedModRM
        disp8 == SignExtend8(ComparedByte(2))
        disp32 == <<ComparedByte(2) + 256 * ComparedByte(3),
                    ComparedByte(4) + 256 * ComparedByte(5)>>
    IN  CASE m.md = 0 /\ m.rm = 5 -> disp32
          [] m.md = 0 /\ m.rm # 5 -> Compared.before.registers[m.rm]
          [] m.md = 1 -> wrapping_add(Compared.before.registers[m.rm], disp8)
          [] OTHER -> wrapping_add(Compared.before.registers[m.rm], disp32)

ComparedOperand ==
    IF ComparedModRM.md = 3 THEN Compared.before.registers[ComparedModRM.rm]
    ELSE WordAt(Compared.before.memory, ComparedAddress)

\* one of the five jumps has run right after a compare
JumpAfterCompare ==
    /\ Len(trace) >= 2
    /\ fatal = "none"
    /\ last \in {"jc", "jz", "jbe", "jl", "jle"}
    /\ \/ Compared.name \in {"cmp_r32_rm32", "cmp_eax_imm32", "cmp_al_imm8"}
       \/ Compared.name = "code_83" /\ ComparedModRM.op = 7

CompareWidth == IF Compared.name = "cmp_al_imm8" THEN 8 ELSE 32

\* the operands of the compare, zero-extended when the width is 8
CompareLeft ==
    CASE Compared.name = "cmp_r32_rm32" -> Compared.before.registers[ComparedModRM.op]
      [] Compared.name = "cmp_eax_imm32" -> Compared.before.registers[EAX]
      [] Compared.name = "cmp_al_imm8" -> <<Reg8(Compared.before.registers, AL), 0>>
      [] OTHER -> ComparedOperand

CompareRight ==
    CASE Compared.name = "cmp_r32_rm32" -> ComparedOperand
      [] Compared.name = "cmp_eax_imm32" ->
            <<ComparedByte(1) + 256 * ComparedByte(2),
              ComparedByte(3) + 256 * ComparedByte(4)>>
      [] Compared.name = "cmp_al_imm8" -> <<ComparedByte(1), 0>>
      [] OTHER -> SignExtend8(ComparedByte(1 + ModRMLength(ComparedModRM)))

\* a value of the compare's width as a signed 32-bit word
AsSigned(v) == IF CompareWidth = 8 THEN SignExtend8(v[1]) ELSE v

SignedBelow(x, y) ==
    LET a == AsSigned(x)
        b == AsSigned(y)
    IN  IF Sign(a) # Sign(b) THEN Sign(a) ELSE Below(a, b)

Comparison(opcode, x, y) ==
    CASE opcode = \h72 -> Below(x, y)
      [] opcode = \h74 -> x = y
      [] opcode = \h76 -> Below(x, y) \/ x = y
      [] opcode = \h7c -> SignedBelow(x, y)
      [] opcode = \h7e -> SignedBelow(x, y) \/ x = y

C21_CompareThenJump ==
    JumpAfterCompare =>
        eip = IF Comparison(PreByte(0), CompareLeft, CompareRight)
              THEN JumpTarget ELSE FallThrough

---------------------------------------------------------------------------
(* C22: in every state reached from a constructed Emulator (flags word 0)  *)
(* by any sequence of instructions the flags word has no bit set outside   *)
(* positions 0 (carry), 6 (zero), 7 (sign) and 11 (overflow), that is      *)
(* flags AND NOT 0x8C1 = 0, and the memory has the size it was constructed *)
(* with.                                                                   *)

\* the flags word the run started with
FlagsAtStart == IF trace = <<>> THEN eflags ELSE trace[1].before.eflags

\* f AND NOT 0x8C1
UndefinedFlagBits(f) ==
    <<f[1] - (f[1] % 2) - 64 * ((f[1] \div 64) % 2) - 128 * ((f[1] \div 128) % 2)
           - 2048 * ((f[1] \div 2048) % 2),
      f[2]>>

C22_FlagsWordAndSize ==
    /\ FlagsAtStart = Zero32 => UndefinedFlagBits(eflags) = Zero32
    /\ memory.len = MEMORY_SIZE

\* sub dword [edx], imm8 has borrowed: carry and sign are set and the memory is written
C22_Witness ==
    /\ Ran("code_83")
    /\ PreModRM.op = 5
    /\ PreModRM.md = 0
    /\ FlagsAtStart = Zero32
    /\ Carry(eflags) /\ SignF(eflags)
    /\ memory.bytes # pre.memory.bytes
    /\ memory.len = MEMORY_SIZE

=============================================================================
